---- MODULE Spec2Model ----
(***************************************************************************)
(* Model of the benchmark orchestrator (load-tester/runner.js): the run    *)
(* scheduler (startBenchmark / runBenchmarkAsync / runFullSuite), the      *)
(* health probe, the summary calculator and the results store.             *)
(*                                                                         *)
(* JavaScript runs each piece of code between two awaits atomically, so    *)
(* every action below is one such piece: it starts where a pending await   *)
(* resolves (or rejects) and runs up to the next await.                    *)
(***************************************************************************)
EXTENDS Integers, Sequences, FiniteSets, TLC

\* ------------------------------------------------------------------ bounds
MaxRuns == 1      \* start requests per behaviour
MaxClock == 1     \* last wall-clock second a behaviour reads

\* --------------------------------------------------------------- constants
IndexCap == 50    \* runs.slice(0, 50)

\* Marker of an absent value (JS null / undefined).
Null == [null |-> TRUE]
NoTime == -1
NoError == ""

\* TEST_TYPES: key -> endpoint, type (name and description are display only)
TEST_TYPES ==
  [k \in {"throughput-todos", "throughput-health", "cpu-heavy", "fibonacci",
          "network-egress", "network-inbound", "concurrent-sessions",
          "json-processing", "full-suite"} |->
     CASE k = "throughput-todos"    -> [endpoint |-> "/api/todos", type |-> "throughput"]
       [] k = "throughput-health"   -> [endpoint |-> "/api/health", type |-> "throughput"]
       [] k = "cpu-heavy"           -> [endpoint |-> "/api/cpu-heavy", type |-> "cpu"]
       [] k = "fibonacci"           -> [endpoint |-> "/api/fibonacci/40", type |-> "fibonacci"]
       [] k = "network-egress"      -> [endpoint |-> "/api/network/download/1024", type |-> "network-egress"]
       [] k = "network-inbound"     -> [endpoint |-> "/api/network/upload", type |-> "network-inbound"]
       [] k = "concurrent-sessions" -> [endpoint |-> "/api/network/hold/1000", type |-> "concurrent-sessions"]
       [] k = "json-processing"     -> [endpoint |-> "/api/json-benchmark/medium", type |-> "json"]
       [] k = "full-suite"          -> [endpoint |-> "all", type |-> "suite"]]

\* The enumerated test kinds: the own keys of TEST_TYPES.
TestKinds == DOMAIN TEST_TYPES

\* TEST_TYPES is an object literal, so a property read TEST_TYPES[k] also
\* finds the properties every object inherits from Object.prototype.
ObjectPrototypeKeys == {"constructor"}

\* The testType strings a start request is tried with: every enumerated
\* kind, one inherited property name and one name that is no property.
TestTypeInputs == TestKinds \cup ObjectPrototypeKeys \cup {"bogus"}

\* TEST_TYPES[testType] as the property read evaluates it: an own entry, an
\* inherited value (truthy, with no .type and no .endpoint), or undefined.
TestConfigOf(testType) ==
  IF testType \in DOMAIN TEST_TYPES THEN TEST_TYPES[testType]
  ELSE IF testType \in ObjectPrototypeKeys THEN [endpoint |-> "undefined", type |-> "undefined"]
  ELSE Null

\* ------------------------------------------------------------ phase tables
Phase(exec, arg, target, progress, text, slot) ==
  [exec |-> exec, arg |-> arg, target |-> target, progress |-> progress,
   text |-> text, slot |-> slot]

\* runSingleThroughputTest ... runSingleJsonTest: target A at 20, B at 60.
SinglePhases(testConfig) ==
  CASE testConfig.type = "throughput" ->
        << Phase("runThroughputTest", testConfig.endpoint, "bun", 20, "Testing Bun endpoint...", "record"),
           Phase("runThroughputTest", testConfig.endpoint, "nodejs", 60, "Testing Node.js endpoint...", "record") >>
    [] testConfig.type = "cpu" ->
        << Phase("runCpuTest", "", "bun", 20, "Testing Bun CPU performance...", "record"),
           Phase("runCpuTest", "", "nodejs", 60, "Testing Node.js CPU performance...", "record") >>
    [] testConfig.type = "fibonacci" ->
        << Phase("runFibonacciTest", "", "bun", 20, "Testing Bun Fibonacci...", "record"),
           Phase("runFibonacciTest", "", "nodejs", 60, "Testing Node.js Fibonacci...", "record") >>
    [] testConfig.type = "network-egress" ->
        << Phase("runNetworkEgressTest", "", "bun", 20, "Testing Bun egress throughput (download)...", "record"),
           Phase("runNetworkEgressTest", "", "nodejs", 60, "Testing Node.js egress throughput (download)...", "record") >>
    [] testConfig.type = "network-inbound" ->
        << Phase("runNetworkInboundTest", "", "bun", 20, "Testing Bun inbound throughput (upload)...", "record"),
           Phase("runNetworkInboundTest", "", "nodejs", 60, "Testing Node.js inbound throughput (upload)...", "record") >>
    [] testConfig.type = "concurrent-sessions" ->
        << Phase("runConcurrentSessionsTest", "", "bun", 20, "Testing Bun max concurrent sessions...", "record"),
           Phase("runConcurrentSessionsTest", "", "nodejs", 60, "Testing Node.js max concurrent sessions...", "record") >>
    [] testConfig.type = "json" ->
        << Phase("runJsonTest", "", "bun", 20, "Testing Bun JSON processing...", "record"),
           Phase("runJsonTest", "", "nodejs", 60, "Testing Node.js JSON processing...", "record") >>
    [] OTHER -> << >>

\* runFullSuite: the sixteen awaited executor calls, in program order.
SuitePhases ==
  << Phase("runThroughputTest", "/api/todos", "bun", 5, "Testing Bun /api/todos throughput...", "throughput.todos"),
     Phase("runThroughputTest", "/api/todos", "nodejs", 10, "Testing Node.js /api/todos throughput...", "throughput.todos"),
     Phase("runThroughputTest", "/api/health", "bun", 15, "Testing Bun /api/health throughput...", "throughput.health"),
     Phase("runThroughputTest", "/api/health", "nodejs", 20, "Testing Node.js /api/health throughput...", "throughput.health"),
     Phase("runNetworkEgressTest", "", "bun", 25, "Testing Bun network egress (download)...", "networkEgress"),
     Phase("runNetworkEgressTest", "", "nodejs", 35, "Testing Node.js network egress (download)...", "networkEgress"),
     Phase("runNetworkInboundTest", "", "bun", 42, "Testing Bun network inbound (upload)...", "networkInbound"),
     Phase("runNetworkInboundTest", "", "nodejs", 50, "Testing Node.js network inbound (upload)...", "networkInbound"),
     Phase("runCpuTest", "", "bun", 55, "Testing Bun CPU performance...", "cpu"),
     Phase("runCpuTest", "", "nodejs", 60, "Testing Node.js CPU performance...", "cpu"),
     Phase("runFibonacciTest", "", "bun", 65, "Testing Bun Fibonacci...", "fibonacci"),
     Phase("runFibonacciTest", "", "nodejs", 70, "Testing Node.js Fibonacci...", "fibonacci"),
     Phase("runConcurrentSessionsTest", "", "bun", 72, "Testing Bun concurrent sessions...", "concurrent"),
     Phase("runConcurrentSessionsTest", "", "nodejs", 80, "Testing Node.js concurrent sessions...", "concurrent"),
     Phase("runJsonTest", "", "bun", 88, "Testing Bun JSON processing...", "json"),
     Phase("runJsonTest", "", "nodejs", 92, "Testing Node.js JSON processing...", "json") >>

\* Mutant: the suite calls the CPU executor for target B before target A.
PhasesOf_SuiteSwapped(testType) ==
  IF testType = "full-suite"
    THEN SubSeq(SuitePhases, 1, 8) \o << SuitePhases[10], SuitePhases[9] >>
           \o SubSeq(SuitePhases, 11, 16)
    ELSE SinglePhases(TestConfigOf(testType))

\* Mutant: the dispatch takes the CPU branch for every non-suite kind.
PhasesOf_IgnoreKind(testType) ==
  IF testType = "full-suite" THEN SuitePhases
  ELSE IF TestConfigOf(testType).type = "undefined" THEN << >>
  ELSE SinglePhases(TEST_TYPES["cpu-heavy"])

\* The if / else-if chain of runBenchmarkAsync after the health probe.
PhasesOf(testType) ==
  IF testType = "full-suite" THEN SuitePhases
  ELSE SinglePhases(TestConfigOf(testType))

\* Executors with code outside their own try block that can throw:
\* runNetworkInboundTest creates its payload file first (dd, then a
\* Bun.write fallback that is not guarded).
ThrowingExecutors == {"runNetworkInboundTest"}

\* ------------------------------------------------------ summary calculator
SuiteImprovements ==
  [k \in {"throughputTodos", "cpu", "fibonacci", "networkEgress",
          "networkInbound", "concurrent", "json"} |->
     CASE k = "throughputTodos" -> "throughput.todos"
       [] k = "cpu"             -> "cpu"
       [] k = "fibonacci"       -> "fibonacci"
       [] k = "networkEgress"   -> "networkEgress"
       [] k = "networkInbound"  -> "networkInbound"
       [] k = "concurrent"      -> "concurrent"
       [] k = "json"            -> "json"]

\* calculateSummary, by the ratios it puts in summary.improvements.
calculateSummary(results, testType) ==
  [testType |-> testType,
   improvements |->
     IF testType = "full-suite"
       THEN {k \in DOMAIN SuiteImprovements :
               SuiteImprovements[k] \in results.bun /\ SuiteImprovements[k] \in results.nodejs}
     ELSE IF testType \in {"throughput-todos", "throughput-health"} THEN {"throughput"}
     ELSE IF testType = "cpu-heavy" THEN {"cpu"}
     ELSE IF testType = "fibonacci" THEN {"fibonacci"}
     ELSE IF testType = "network-egress" THEN {"egress"}
     ELSE IF testType = "network-inbound" THEN {"inbound"}
     ELSE IF testType = "concurrent-sessions" THEN {"concurrency"}
     ELSE IF testType = "json-processing" THEN {"json"}
     ELSE {}]

\* ------------------------------------------------------------------- state
VARIABLES
  clock,       \* the wall-clock second the process read last (new Date())
  runs,        \* the run objects, in creation order
  activeRuns,  \* the live mapping: run id -> index of a run object, 0 = no entry
  pc,          \* per run object: the await runBenchmarkAsync is suspended at
  phase,       \* per run object: index of the executor call in flight
  healthBun,   \* per run object: results.bun inside checkServicesHealth, Null outside
  trace,       \* per run object: the requests and executor calls it issued
  files,       \* per run id: writer of each artifact in the run directory, 0 = absent
  indexFile,   \* runs.json: its entries, << >> while the file does not exist
  indexLocal,  \* per run object: the local `runs` of updateRunsIndex
  request,     \* the GET /api/status request waiting for its disk reads, or Null
  response,    \* the last response an API route sent, or Null
  call,        \* a function called on its own: its arguments and locals, or Null
  result       \* what that call returned, Null while it has not returned

vars == << clock, runs, activeRuns, pc, phase, healthBun, trace, files, indexFile, indexLocal,
           request, response, call, result >>

RunIds == {<< "run", t >> : t \in 0..MaxClock}
Artifacts == {"config.json", "bun-results.json", "nodejs-results.json", "summary.json"}

\* A health response body: whether it carries an error field and whether it
\* carries a runtime field.  A failed fetch gives { error: message }.
HealthPayloads == [error : BOOLEAN, runtime : BOOLEAN]

\* generateRunId: "run-" and the ISO timestamp cut after the seconds (the
\* clock counts the seconds, so the id keeps all of it).
generateRunId(now) == << "run", now >>

Event(exec, arg, target, ev) == [exec |-> exec, arg |-> arg, target |-> target, ev |-> ev]

Init ==
  /\ clock = 0
  /\ runs = << >>
  /\ activeRuns = [i \in RunIds |-> 0]
  /\ pc = << >>
  /\ phase = << >>
  /\ healthBun = << >>
  /\ trace = << >>
  /\ files = [i \in RunIds |-> [a \in Artifacts |-> 0]]
  /\ indexFile = << >>
  /\ indexLocal = << >>
  /\ request = Null
  /\ response = Null
  /\ call = Null
  /\ result = Null

\* The seconds a `new Date()` can give: time does not run backwards.
Now == clock..MaxClock


\* ------------------------------------------------- steps on one run object
\* The fields of a run's config and the defaults startBenchmark gives them.
ConfigFields ==
  {"duration", "concurrency", "iterations", "maxConcurrency", "suiteDurationMinutes"}

ConfigDefaults ==
  [duration |-> "30s", concurrency |-> 50, iterations |-> 10,
   maxConcurrency |-> 2000, suiteDurationMinutes |-> 10]

\* A JSON object is modelled by the set of the fields it has and their
\* values.  A config object that sets none of the fields:
NoConfig == [fields |-> {}, v |-> ConfigDefaults]

\* The object has the field (its value is not undefined).
Has(object, f) == f \in object.fields

\* `const { duration = "30s", ... } = config`: a field that is unset
\* (undefined) gets its default.
ResolveConfig(config) ==
  [f \in ConfigFields |-> IF Has(config, f) THEN config.v[f] ELSE ConfigDefaults[f]]

\* startBenchmark: the initial run state.
NewRun(runId, testType, config, now) ==
  [id |-> runId, testType |-> testType, config |-> ResolveConfig(config),
   status |-> "running", progress |-> 0,
   progressText |-> "Initializing...", startTime |-> now,
   results |-> [bun |-> {}, nodejs |-> {}], summary |-> Null,
   error |-> NoError, endTime |-> NoTime]

\* runBenchmarkAsync, `if (!testConfig)` branch.
UnknownTestType(run) ==
  [run EXCEPT !.status = "error", !.error = "Unknown test type"]

\* Mutant: the health check announces progress 10.
CheckingHealth_P10(run) ==
  [run EXCEPT !.progressText = "Checking service health...", !.progress = 10]

\* runBenchmarkAsync, first statements of the try block.
CheckingHealth(run) ==
  [run EXCEPT !.progressText = "Checking service health...", !.progress = 5]

\* Mutant: only target A's payload is tested.
Unhealthy_BunOnly(health) == health.bun.error

\* `health.bun?.error || health.nodejs?.error`
Unhealthy(health) == health.bun.error \/ health.nodejs.error

\* runBenchmarkAsync, health short-circuit.
ServicesNotHealthy(run) ==
  [run EXCEPT !.status = "error", !.error = "Services not healthy"]

\* runFullSuite: `run.results = { bun: {...}, nodejs: {...} }`
SuiteResults(run) ==
  [run EXCEPT !.results = [bun |-> {"object"}, nodejs |-> {"object"}]]

\* The two assignments in front of every awaited executor call.
BeginPhase(run, ph) ==
  [run EXCEPT !.progressText = ph.text, !.progress = ph.progress]

\* `run.results.<target>[.<sub-test>] = await <executor>(...)`
StoreResult(run, ph) ==
  [run EXCEPT !.results[ph.target] = @ \cup {ph.slot}]

\* runBenchmarkAsync, "Calculate summary".
PhasesDone(run) ==
  [run EXCEPT !.progress = 95, !.progressText = "Generating summary...",
              !.summary = calculateSummary(run.results, run.testType)]

\* Mutant: completion writes progress 10 instead of 100.
Completed_P10(run, now) ==
  [run EXCEPT !.status = "complete", !.progress = 10,
              !.progressText = "Complete!", !.endTime = now]

\* runBenchmarkAsync, the statements after `await saveResults(run)`.
Completed(run, now) ==
  [run EXCEPT !.status = "complete", !.progress = 100,
              !.progressText = "Complete!", !.endTime = now]

\* Mutant: the catch block records a fixed text instead of error.message.
Caught_NoMessage(run, message) ==
  [run EXCEPT !.status = "error", !.error = "Unknown error", !.progress = 0,
              !.progressText = "Error: " \o message]

\* Mutant: the catch block records the message and leaves the status.
Caught_KeepStatus(run, message) ==
  [run EXCEPT !.error = message, !.progress = 0,
              !.progressText = "Error: " \o message]

\* runBenchmarkAsync, catch block.
Caught(run, message) ==
  [run EXCEPT !.status = "error", !.error = message, !.progress = 0,
              !.progressText = "Error: " \o message]

\* The messages of the exceptions an executor can throw (the write of the
\* upload payload failing for lack of space or of permission).
ThrowMessages == {"ENOSPC", "EACCES"}

\* The trace event of an executor call that threw: it carries the message.
Thrown(ph, message) ==
  [exec |-> ph.exec, arg |-> ph.arg, target |-> ph.target, ev |-> "throw",
   message |-> message]

\* updateRunsIndex: the entry put in front of the index.
IndexEntry(run, obj) == [id |-> run.id, obj |-> obj, endTime |-> run.endTime]

\* Mutant: the cut keeps the last n entries.
Slice_Tail(s, n) == IF Len(s) <= n THEN s ELSE SubSeq(s, Len(s) - n + 1, Len(s))

\* runs.slice(0, 50)
Slice(s, n) == IF Len(s) <= n THEN s ELSE SubSeq(s, 1, n)

\* ----------------------------------------------------------------- actions
\* Mutant: the progress text is one module-level value that every run
\* object shows.
Goto_SharedText(r, run, newPc, newPhase, events) ==
  /\ runs' = [s \in DOMAIN runs |->
                IF s = r THEN run
                         ELSE [runs[s] EXCEPT !.progressText = run.progressText]]
  /\ pc' = [pc EXCEPT ![r] = newPc]
  /\ phase' = [phase EXCEPT ![r] = newPhase]
  /\ trace' = [trace EXCEPT ![r] = @ \o events]

\* One step of run object r: its record, its position and its trace change.
Goto(r, run, newPc, newPhase, events) ==
  /\ runs' = [runs EXCEPT ![r] = run]
  /\ pc' = [pc EXCEPT ![r] = newPc]
  /\ phase' = [phase EXCEPT ![r] = newPhase]
  /\ trace' = [trace EXCEPT ![r] = @ \o events]

\* Mutant: the run is marked complete before saveResults is awaited.
StartSave_CompleteEarly(r, run, events) ==
  Goto(r, Completed(PhasesDone(run), clock), "save_mkdir", 0,
       events \o << Event("calculateSummary", "", "", "return"),
                    Event("saveResults", "", "", "start") >>)

\* runBenchmarkAsync from "Calculate summary" to the first await of
\* saveResults (mkdir -p).
StartSave(r, run, events) ==
  Goto(r, PhasesDone(run), "save_mkdir", 0,
       events \o << Event("calculateSummary", "", "", "return"),
                    Event("saveResults", "", "", "start") >>)

\* Mutant: the two executor calls of the first phase are issued together.
Dispatch_Parallel(r, run, events) ==
  LET phs == PhasesOf(run.testType)
      run1 == IF run.testType = "full-suite" THEN SuiteResults(run) ELSE run
  IN IF phs = << >>
       THEN StartSave(r, run1, events)
       ELSE Goto(r, BeginPhase(run1, phs[1]), "phase", 1,
                 events \o << Event(phs[1].exec, phs[1].arg, phs[1].target, "start"),
                              Event(phs[2].exec, phs[2].arg, phs[2].target, "start") >>)

\* runBenchmarkAsync from the dispatch on the test kind to the first await
\* of the first executor.
Dispatch(r, run, events) ==
  LET phs == PhasesOf(run.testType)
      run1 == IF run.testType = "full-suite" THEN SuiteResults(run) ELSE run
  IN IF phs = << >>
       THEN StartSave(r, run1, events)
       ELSE Goto(r, BeginPhase(run1, phs[1]), "phase", 1,
                 events \o << Event(phs[1].exec, phs[1].arg, phs[1].target, "start") >>)

\* Mutant: runBenchmarkAsync returns after saveResults without the
\* assignments that complete the run.
Finish_NoStatus(r, events) ==
  /\ clock' = clock
  /\ Goto(r, runs[r], "done", 0,
          events \o << Event("saveResults", "", "", "return") >>)

\* saveResults returned (normally, or through its catch): the run completes
\* and reads the clock for its end time.
Finish(r, events) ==
  \E now \in Now :
    /\ clock' = now
    /\ Goto(r, Completed(runs[r], now), "done", 0,
            events \o << Event("saveResults", "", "", "return") >>)

\* startBenchmark(testType, config), with the synchronous head of
\* runBenchmarkAsync up to its first await (the fetch of target A's health).
startBenchmark(testType, config, now) ==
  /\ clock' = now
  /\ LET runId == generateRunId(now)
         r == Len(runs) + 1
         run == NewRun(runId, testType, config, now)
     IN /\ activeRuns' = [activeRuns EXCEPT ![runId] = r]
        /\ IF TestConfigOf(testType) = Null
             THEN /\ runs' = Append(runs, UnknownTestType(run))
                  /\ pc' = Append(pc, "done")
                  /\ trace' = Append(trace, << >>)
             ELSE /\ runs' = Append(runs, CheckingHealth(run))
                  /\ pc' = Append(pc, "health_bun")
                  /\ trace' = Append(trace, << Event("fetch", "/api/health", "bun", "start") >>)
        /\ phase' = Append(phase, 0)
        /\ healthBun' = Append(healthBun, Null)
        /\ indexLocal' = Append(indexLocal, << >>)
  /\ UNCHANGED << call, result, files, indexFile >>

\* What a health fetch ended with, as the trace records it: "error" for a
\* payload with an error field (a failed fetch included), else "return".
FetchOutcome(payload) == IF payload.error THEN "error" ELSE "return"

\* checkServicesHealth: target A answered (or the fetch failed); target B is
\* probed next, whatever A answered.
HealthBun(r, payload) ==
  /\ pc[r] = "health_bun"
  /\ healthBun' = [healthBun EXCEPT ![r] = payload]
  /\ Goto(r, runs[r], "health_nodejs", 0,
          << Event("fetch", "/api/health", "bun", FetchOutcome(payload)),
             Event("fetch", "/api/health", "nodejs", "start") >>)
  /\ UNCHANGED << call, result, request, response, clock, activeRuns, files, indexFile, indexLocal >>

\* Mutant: the health short-circuit lacks its return, so the phases run on.
HealthNodejs_NoReturn(r, payload) ==
  /\ pc[r] = "health_nodejs"
  /\ LET health == [bun |-> healthBun[r], nodejs |-> payload]
         ev == << Event("fetch", "/api/health", "nodejs", FetchOutcome(payload)) >>
     IN IF Unhealthy(health)
          THEN Dispatch(r, ServicesNotHealthy(runs[r]), ev)
          ELSE Dispatch(r, runs[r], ev)
  /\ healthBun' = [healthBun EXCEPT ![r] = Null]
  /\ UNCHANGED << call, result, request, response, clock, activeRuns, files, indexFile, indexLocal >>

\* checkServicesHealth returns; runBenchmarkAsync tests the two payloads and
\* either gives up or enters the phases.
HealthNodejs(r, payload) ==
  /\ pc[r] = "health_nodejs"
  /\ LET health == [bun |-> healthBun[r], nodejs |-> payload]
         ev == << Event("fetch", "/api/health", "nodejs", FetchOutcome(payload)) >>
     IN IF Unhealthy(health)
          THEN Goto(r, ServicesNotHealthy(runs[r]), "done", 0, ev)
          ELSE Dispatch(r, runs[r], ev)
  /\ healthBun' = [healthBun EXCEPT ![r] = Null]
  /\ UNCHANGED << call, result, request, response, clock, activeRuns, files, indexFile, indexLocal >>

\* The executor call in flight returns its result record: it is stored and
\* the next executor is called, or after the last one the summary is
\* computed and saveResults is entered.
PhaseReturn(r) ==
  /\ pc[r] = "phase"
  /\ LET phs == PhasesOf(runs[r].testType)
         k == phase[r]
         run1 == StoreResult(runs[r], phs[k])
         ev == << Event(phs[k].exec, phs[k].arg, phs[k].target, "return") >>
     IN IF k < Len(phs)
          THEN Goto(r, BeginPhase(run1, phs[k + 1]), "phase", k + 1,
                    ev \o << Event(phs[k + 1].exec, phs[k + 1].arg, phs[k + 1].target, "start") >>)
          ELSE StartSave(r, run1, ev)
  /\ UNCHANGED << call, result, request, response, clock, activeRuns, healthBun, files, indexFile, indexLocal >>

\* The executor call in flight throws an exception with the given message:
\* the catch block of runBenchmarkAsync.
PhaseThrow(r, message) ==
  /\ pc[r] = "phase"
  /\ LET ph == PhasesOf(runs[r].testType)[phase[r]]
     IN /\ ph.exec \in ThrowingExecutors
        /\ Goto(r, Caught(runs[r], message), "done", 0, << Thrown(ph, message) >>)
  /\ UNCHANGED << call, result, request, response, clock, activeRuns, healthBun, files, indexFile, indexLocal >>

\* saveResults: the pending mkdir or Bun.write settles.  On success the
\* artifact is on disk and the next write is issued; on failure the catch
\* block of saveResults logs and saveResults returns.
SaveNext ==
  [p \in {"save_mkdir", "save_config", "save_bun", "save_nodejs", "save_summary"} |->
     CASE p = "save_mkdir"   -> "save_config"
       [] p = "save_config"  -> "save_bun"
       [] p = "save_bun"     -> "save_nodejs"
       [] p = "save_nodejs"  -> "save_summary"
       [] p = "save_summary" -> "index_read"]

SaveArtifact ==
  [p \in {"save_config", "save_bun", "save_nodejs", "save_summary"} |->
     CASE p = "save_config"  -> "config.json"
       [] p = "save_bun"     -> "bun-results.json"
       [] p = "save_nodejs"  -> "nodejs-results.json"
       [] p = "save_summary" -> "summary.json"]

\* Mutant: saveResults has no catch, so a failed write reaches the catch
\* block of runBenchmarkAsync.
SaveStep_Rethrow(r, ok) ==
  /\ pc[r] \in DOMAIN SaveNext
  /\ IF ok
       THEN /\ files' = IF pc[r] \in DOMAIN SaveArtifact
                          THEN [files EXCEPT ![runs[r].id][SaveArtifact[pc[r]]] = r]
                          ELSE files
            /\ Goto(r, runs[r], SaveNext[pc[r]], 0, << >>)
       ELSE /\ files' = files
            /\ Goto(r, Caught(runs[r], "EACCES"), "done", 0, << >>)
  /\ UNCHANGED << call, result, request, response, clock, activeRuns, healthBun, indexFile, indexLocal >>

\* Mutant: a failed write is logged and the next write is issued all the
\* same.
SaveStep_Continue(r, ok) ==
  /\ pc[r] \in DOMAIN SaveNext
  /\ files' = IF ok /\ pc[r] \in DOMAIN SaveArtifact
                THEN [files EXCEPT ![runs[r].id][SaveArtifact[pc[r]]] = r]
                ELSE files
  /\ Goto(r, runs[r], SaveNext[pc[r]], 0, << >>)
  /\ UNCHANGED << call, result, request, response, clock, activeRuns, healthBun, indexFile, indexLocal >>

SaveStep(r, ok) ==
  /\ pc[r] \in DOMAIN SaveNext
  /\ IF ok
       THEN /\ files' = IF pc[r] \in DOMAIN SaveArtifact
                          THEN [files EXCEPT ![runs[r].id][SaveArtifact[pc[r]]] = r]
                          ELSE files
            /\ Goto(r, runs[r], SaveNext[pc[r]], 0, << >>)
            /\ clock' = clock
       ELSE /\ files' = files
            /\ Finish(r, << >>)
  /\ UNCHANGED << call, result, request, response, activeRuns, healthBun, indexFile, indexLocal >>

\* updateRunsIndex: the read of runs.json settles (a missing file counts as
\* an empty index); the entry is put in front, the list is cut to 50 and
\* the write is issued.
IndexRead(r) ==
  /\ pc[r] = "index_read"
  /\ indexLocal' = [indexLocal EXCEPT ![r] =
                       Slice(<< IndexEntry(runs[r], r) >> \o indexFile, IndexCap)]
  /\ Goto(r, runs[r], "index_write", 0, << >>)
  /\ UNCHANGED << call, result, request, response, clock, activeRuns, healthBun, files, indexFile >>

\* Mutant: the write puts the entry in front of what the file holds at the
\* time of the write, not of what was read before.
IndexWrite_Isolated(r, ok) ==
  /\ pc[r] = "index_write"
  /\ indexFile' = IF ok THEN Slice(<< indexLocal[r][1] >> \o indexFile, IndexCap)
                         ELSE indexFile
  /\ Finish(r, << Event("updateRunsIndex", "", "", IF ok THEN "return" ELSE "throw") >>)
  /\ UNCHANGED << call, result, request, response, activeRuns, healthBun, files, indexLocal >>

\* updateRunsIndex: the write of runs.json settles; saveResults returns and
\* the run completes.
IndexWrite(r, ok) ==
  /\ pc[r] = "index_write"
  /\ indexFile' = IF ok THEN indexLocal[r] ELSE indexFile
  /\ Finish(r, << Event("updateRunsIndex", "", "", IF ok THEN "return" ELSE "throw") >>)
  /\ UNCHANGED << call, result, request, response, activeRuns, healthBun, files, indexLocal >>

Next ==
  \/ /\ Len(runs) < MaxRuns
     /\ \E t \in TestTypeInputs : \E now \in Now : startBenchmark(t, NoConfig, now)
     /\ UNCHANGED << request, response >>
  \/ \E r \in DOMAIN runs : \E payload \in HealthPayloads : HealthBun(r, payload)
  \/ \E r \in DOMAIN runs : \E payload \in HealthPayloads : HealthNodejs(r, payload)
  \/ \E r \in DOMAIN runs : PhaseReturn(r)
  \/ \E r \in DOMAIN runs : \E message \in ThrowMessages : PhaseThrow(r, message)
  \/ \E r \in DOMAIN runs : \E ok \in BOOLEAN : SaveStep(r, ok)
  \/ \E r \in DOMAIN runs : IndexRead(r)
  \/ \E r \in DOMAIN runs : \E ok \in BOOLEAN : IndexWrite(r, ok)

Spec == Init /\ [][Next]_vars

\* getRunStatus(runId): the run object the live mapping holds, or null.
getRunStatus(runId) ==
  IF runId \notin DOMAIN activeRuns \/ activeRuns[runId] = 0
    THEN Null
    ELSE runs[activeRuns[runId]]

\* ------------------------------------------- a results store with history
\* The run directories and the index a process finds at its start, left by
\* earlier processes: IndexCap - 1 runs that were persisted in full and are
\* in the index, most recent first, and one run directory whose persistence
\* failed after config.json.
BootWriter == -1

OldIds == {<< "old", k >> : k \in 0..(IndexCap - 1)}

BootIndex ==
  [k \in 1..(IndexCap - 1) |->
     [id |-> << "old", IndexCap - k >>, obj |-> BootWriter, endTime |-> NoTime]]

BootFiles ==
  [i \in RunIds \cup OldIds |->
     [a \in Artifacts |->
        IF i \in RunIds THEN 0
        ELSE IF i = << "old", 0 >> /\ a # "config.json" THEN 0
        ELSE BootWriter]]

\* The run object an earlier process persisted under an old id: a finished
\* run of the CPU kind.
BootRun ==
  [runId \in RunIds \cup OldIds |->
     LET results == [bun |-> {"cpu"}, nodejs |-> {"cpu"}]
     IN [NewRun(runId, "cpu-heavy", NoConfig, 0) EXCEPT
           !.results = results, !.progress = 95,
           !.progressText = "Generating summary...",
           !.summary = calculateSummary(results, "cpu-heavy")]]

InitBoot ==
  /\ clock = 0
  /\ runs = << >>
  /\ activeRuns = [i \in RunIds |-> 0]
  /\ pc = << >>
  /\ phase = << >>
  /\ healthBun = << >>
  /\ trace = << >>
  /\ files = BootFiles
  /\ indexFile = BootIndex
  /\ indexLocal = << >>
  /\ request = Null
  /\ response = Null
  /\ call = Null
  /\ result = Null

\* ---------------------------------------------- runs one after the other
\* A client that starts a run only after the previous one has ended.
MaxSeqRuns == 2

SeqKinds == {"cpu-heavy", "network-inbound"}

NextSeq ==
  \/ /\ Len(runs) < MaxSeqRuns
     /\ \A r \in DOMAIN runs : pc[r] = "done"
     /\ \E t \in SeqKinds : \E now \in Now : startBenchmark(t, NoConfig, now)
     /\ UNCHANGED << request, response >>
  \/ \E r \in DOMAIN runs : \E payload \in HealthPayloads : HealthBun(r, payload)
  \/ \E r \in DOMAIN runs : \E payload \in HealthPayloads : HealthNodejs(r, payload)
  \/ \E r \in DOMAIN runs : PhaseReturn(r)
  \/ \E r \in DOMAIN runs : \E message \in ThrowMessages : PhaseThrow(r, message)
  \/ \E r \in DOMAIN runs : \E ok \in BOOLEAN : SaveStep(r, ok)
  \/ \E r \in DOMAIN runs : IndexRead(r)
  \/ \E r \in DOMAIN runs : \E ok \in BOOLEAN : IndexWrite(r, ok)

SpecSeq == InitBoot /\ [][NextSeq]_vars

\* ------------------------------------------------ GET /api/status/:runId
\* Bun.file(path).json() for an artifact of a run directory succeeds.
Readable(runId, a) == runId \in DOMAIN files /\ files[runId][a] # 0

\* What a readable artifact holds: what saveResults of its writer put in it.
\* (results and summary of a run object do not change once saveResults is
\* entered, so the writer's record still shows what was written.  endTime
\* is undefined while saveResults runs, and JSON.stringify leaves an
\* undefined property out: summary.json has no endTime.)
FileContent(runId, a) ==
  LET run == IF files[runId][a] = BootWriter THEN BootRun[runId]
                                             ELSE runs[files[runId][a]]
  IN CASE a = "config.json"         -> run.config
       [] a = "bun-results.json"    -> run.results.bun
       [] a = "nodejs-results.json" -> run.results.nodejs
       [] a = "summary.json"        -> [id |-> run.id, testType |-> run.testType,
                                        startTime |-> run.startTime,
                                        summary |-> run.summary]

\* Mutant: a run directory counts as found once its config.json is readable.
getRunDetails_ConfigOnly(runId) ==
  IF Readable(runId, "config.json")
    THEN LET run == BootRun[runId]
         IN [config |-> FileContent(runId, "config.json"),
             bunResults |-> run.results.bun,
             nodejsResults |-> run.results.nodejs,
             summary |-> [summary |-> run.summary]]
    ELSE Null

\* Mutant: an artifact that cannot be read is left out of the result.
getRunDetails_Partial(runId) ==
  LET read(a) == IF Readable(runId, a) THEN FileContent(runId, a) ELSE Null
  IN [config |-> read("config.json"),
      bunResults |-> read("bun-results.json"),
      nodejsResults |-> read("nodejs-results.json"),
      summary |-> read("summary.json")]

\* getRunDetails(runId): the four artifacts, or null when any read fails.
getRunDetails(runId) ==
  IF \A a \in Artifacts : Readable(runId, a)
    THEN [config |-> FileContent(runId, "config.json"),
          bunResults |-> FileContent(runId, "bun-results.json"),
          nodejsResults |-> FileContent(runId, "nodejs-results.json"),
          summary |-> FileContent(runId, "summary.json")]
    ELSE Null

jsonResponse(runId, code, body) == [runId |-> runId, code |-> code, body |-> body]

\* The ids a client asks about: ids of this process, old ids with a full
\* and with a partial run directory, and an id nobody ever had.
StatusIds == RunIds \cup {<< "old", 1 >>, << "old", 0 >>, << "none", 0 >>}

\* handleApi, GET /api/status/:runId, up to its await: a live run is
\* answered at once, else the four disk reads of getRunDetails are issued.
StatusRequest(runId) ==
  /\ request = Null
  /\ LET status == getRunStatus(runId)
     IN IF status # Null
          THEN /\ response' = jsonResponse(runId, 200, status)
               /\ request' = Null
          ELSE /\ request' = [runId |-> runId]
               /\ response' = Null
  /\ UNCHANGED << call, result, clock, runs, activeRuns, pc, phase, healthBun, trace, files,
                  indexFile, indexLocal >>

\* handleApi, GET /api/status/:runId, after getRunDetails has settled.
StatusDetails ==
  /\ request # Null
  /\ LET runId == request.runId
         details == getRunDetails(runId)
     IN response' =
          IF details # Null
            THEN jsonResponse(runId, 200,
                   [id |-> runId, status |-> "complete", progress |-> 100,
                    progressText |-> "Complete!",
                    results |-> [bun |-> details.bunResults,
                                 nodejs |-> details.nodejsResults],
                    summary |-> details.summary.summary])
            ELSE jsonResponse(runId, 404, [error |-> "Run not found"])
  /\ request' = Null
  /\ UNCHANGED << call, result, clock, runs, activeRuns, pc, phase, healthBun, trace, files,
                  indexFile, indexLocal >>

\* One run of the CPU kind in a process that found a history on disk, and
\* a client polling the status route.
ApiKinds == {"cpu-heavy"}

NextApi ==
  \/ /\ runs = << >>
     /\ \E t \in ApiKinds : \E now \in Now : startBenchmark(t, NoConfig, now)
     /\ UNCHANGED << request, response >>
  \/ \E r \in DOMAIN runs : \E payload \in HealthPayloads : HealthBun(r, payload)
  \/ \E r \in DOMAIN runs : \E payload \in HealthPayloads : HealthNodejs(r, payload)
  \/ \E r \in DOMAIN runs : PhaseReturn(r)
  \/ \E r \in DOMAIN runs : \E ok \in BOOLEAN : SaveStep(r, ok)
  \/ \E r \in DOMAIN runs : IndexRead(r)
  \/ \E r \in DOMAIN runs : \E ok \in BOOLEAN : IndexWrite(r, ok)
  \/ \E runId \in StatusIds : StatusRequest(runId)
  \/ StatusDetails

SpecApi == InitBoot /\ [][NextApi]_vars

\* ------------------------------------------------- GET /api/reports/:id
\* Mutant: a run directory that cannot be read in full is removed.
GetReport_Prune(runId) ==
  /\ LET details == getRunDetails(runId)
     IN /\ response' = IF details = Null
                         THEN jsonResponse(runId, 404, [error |-> "Report not found"])
                         ELSE jsonResponse(runId, 200, details)
        /\ files' = IF details = Null /\ runId \in DOMAIN files
                      THEN [files EXCEPT ![runId] = [a \in Artifacts |-> 0]]
                      ELSE files
  /\ UNCHANGED << call, result, clock, runs, activeRuns, pc, phase, healthBun, trace,
                  indexFile, indexLocal, request >>

\* handleApi, GET /api/reports/:id: getRunDetails is awaited and its result
\* or a 404 is sent.
GetReport(runId) ==
  /\ LET details == getRunDetails(runId)
     IN response' = IF details = Null
                      THEN jsonResponse(runId, 404, [error |-> "Report not found"])
                      ELSE jsonResponse(runId, 200, details)
  /\ UNCHANGED << call, result, clock, runs, activeRuns, pc, phase, healthBun, trace, files,
                  indexFile, indexLocal, request >>

\* One run of the CPU kind in a process that found a history on disk, and
\* a client fetching reports.
NextReport ==
  \/ /\ runs = << >>
     /\ \E t \in ApiKinds : \E now \in Now : startBenchmark(t, NoConfig, now)
     /\ UNCHANGED << request, response >>
  \/ \E r \in DOMAIN runs : \E payload \in HealthPayloads : HealthBun(r, payload)
  \/ \E r \in DOMAIN runs : \E payload \in HealthPayloads : HealthNodejs(r, payload)
  \/ \E r \in DOMAIN runs : PhaseReturn(r)
  \/ \E r \in DOMAIN runs : \E ok \in BOOLEAN : SaveStep(r, ok)
  \/ \E r \in DOMAIN runs : IndexRead(r)
  \/ \E r \in DOMAIN runs : \E ok \in BOOLEAN : IndexWrite(r, ok)
  \/ \E runId \in StatusIds : GetReport(runId)

SpecReport == InitBoot /\ [][NextReport]_vars

\* ---------------------------------------------------- GET /api/reports
\* getAllRuns(): the parsed index, or [] when runs.json cannot be read (a
\* file that is not there reads like an empty index).
getAllRuns == indexFile

\* The route has no run id; its response is filed under this one.
AllReports == << "reports", 0 >>

\* handleApi, GET /api/reports: getAllRuns is awaited and its result sent.
ListReports ==
  /\ response' = jsonResponse(AllReports, 200, [reports |-> getAllRuns])
  /\ UNCHANGED << call, result, clock, runs, activeRuns, pc, phase, healthBun, trace, files,
                  indexFile, indexLocal, request >>

\* One run of the CPU kind in a process that found a history on disk, and
\* a client using the three read routes.
NextRead ==
  \/ /\ runs = << >>
     /\ \E t \in ApiKinds : \E now \in Now : startBenchmark(t, NoConfig, now)
     /\ UNCHANGED << request, response >>
  \/ \E r \in DOMAIN runs : \E payload \in HealthPayloads : HealthBun(r, payload)
  \/ \E r \in DOMAIN runs : \E payload \in HealthPayloads : HealthNodejs(r, payload)
  \/ \E r \in DOMAIN runs : PhaseReturn(r)
  \/ \E r \in DOMAIN runs : \E ok \in BOOLEAN : SaveStep(r, ok)
  \/ \E r \in DOMAIN runs : IndexRead(r)
  \/ \E r \in DOMAIN runs : \E ok \in BOOLEAN : IndexWrite(r, ok)
  \/ \E runId \in StatusIds : StatusRequest(runId)
  \/ StatusDetails
  \/ \E runId \in StatusIds : GetReport(runId)
  \/ ListReports

SpecRead == InitBoot /\ [][NextRead]_vars

\* -------------------------------------------------------- POST /api/run
\* The JSON bodies a client posts: a testType that is left out, outside the
\* enumeration, a name every object inherits, or a test kind; and config
\* fields of which none, one or all are given.
PostTestTypes == {"bogus", "constructor", "cpu-heavy"}

PostConfigValues ==
  [duration |-> "60s", concurrency |-> 100, iterations |-> 3,
   maxConcurrency |-> 500, suiteDurationMinutes |-> 20]

PostConfigFields == {{}, ConfigFields} \cup {{f} : f \in ConfigFields}

PostBodies ==
  {[fields |-> D, v |-> PostConfigValues, testType |-> ""] : D \in PostConfigFields}
  \cup
  {[fields |-> D \cup {"testType"}, v |-> PostConfigValues, testType |-> t] :
     D \in PostConfigFields, t \in PostTestTypes}

\* The response of POST /api/run, with the body it answers.
postResponse(req, code, body) == [req |-> req, code |-> code, body |-> body]

\* `!testType || !TEST_TYPES[testType]`
InvalidTestType(body) ==
  ~Has(body, "testType") \/ TestConfigOf(body.testType) = Null

\* `const { testType, duration = "30s", concurrency = 50, iterations = 10 }
\* = body` and the object `{ duration, concurrency, iterations }` the route
\* hands to startBenchmark.
PostedConfig(body) ==
  LET passed == {"duration", "concurrency", "iterations"}
  IN [fields |-> passed,
      v |-> [f \in ConfigFields |->
               IF f \in passed /\ Has(body, f) THEN body.v[f] ELSE ConfigDefaults[f]]]

\* handleApi, POST /api/run, with a body that is a JSON object.
PostRun(body) ==
  /\ IF InvalidTestType(body)
       THEN /\ response' = postResponse(body, 400, [error |-> "Invalid test type"])
            /\ UNCHANGED << call, result, clock, runs, activeRuns, pc, phase, healthBun, trace,
                            files, indexFile, indexLocal >>
       ELSE \E now \in Now :
              /\ startBenchmark(body.testType, PostedConfig(body), now)
              /\ response' = postResponse(body, 200,
                                [runId |-> generateRunId(now), status |-> "started"])
  /\ request' = request

\* handleApi, POST /api/run, with a body req.json() cannot parse: the catch
\* of the route.
PostRunMalformed ==
  /\ response' = postResponse(Null, 500, [error |-> "JSON Parse error"])
  /\ UNCHANGED << call, result, clock, runs, activeRuns, pc, phase, healthBun, trace,
                  files, indexFile, indexLocal, request >>

\* A client that posts bodies, of which one is accepted.
NextPost ==
  \/ \E body \in PostBodies :
       /\ runs = << >> \/ InvalidTestType(body)
       /\ PostRun(body)
  \/ PostRunMalformed
  \/ \E r \in DOMAIN runs : \E payload \in HealthPayloads : HealthBun(r, payload)
  \/ \E r \in DOMAIN runs : \E payload \in HealthPayloads : HealthNodejs(r, payload)
  \/ \E r \in DOMAIN runs : PhaseReturn(r)
  \/ \E r \in DOMAIN runs : \E ok \in BOOLEAN : SaveStep(r, ok)
  \/ \E r \in DOMAIN runs : IndexRead(r)
  \/ \E r \in DOMAIN runs : \E ok \in BOOLEAN : IndexWrite(r, ok)

SpecPost == Init /\ [][NextPost]_vars

\* ------------------------------------------------ several runs in flight
\* Runs of the CPU kind started while earlier ones are still in flight.
MaxConcRuns == 2

ConcKinds == {"cpu-heavy"}

NextConc ==
  \/ /\ Len(runs) < MaxConcRuns
     /\ \E t \in ConcKinds : \E now \in Now : startBenchmark(t, NoConfig, now)
     /\ UNCHANGED << request, response >>
  \/ \E r \in DOMAIN runs : \E payload \in HealthPayloads : HealthBun(r, payload)
  \/ \E r \in DOMAIN runs : \E payload \in HealthPayloads : HealthNodejs(r, payload)
  \/ \E r \in DOMAIN runs : PhaseReturn(r)
  \/ \E r \in DOMAIN runs : \E ok \in BOOLEAN : SaveStep(r, ok)
  \/ \E r \in DOMAIN runs : IndexRead(r)
  \/ \E r \in DOMAIN runs : \E ok \in BOOLEAN : IndexWrite(r, ok)

SpecConc == Init /\ [][NextConc]_vars

\* ------------------------------------------------- one run to its end
\* The call run object r is waiting for settles: it returns or fails.
Settle(r) ==
  \/ \E payload \in HealthPayloads : HealthBun(r, payload)
  \/ \E payload \in HealthPayloads : HealthNodejs(r, payload)
  \/ PhaseReturn(r)
  \/ \E message \in ThrowMessages : PhaseThrow(r, message)
  \/ \E ok \in BOOLEAN : SaveStep(r, ok)
  \/ IndexRead(r)
  \/ \E ok \in BOOLEAN : IndexWrite(r, ok)

\* One run of any kind.
NextLive ==
  \/ /\ runs = << >>
     /\ \E t \in TestTypeInputs : \E now \in Now : startBenchmark(t, NoConfig, now)
     /\ UNCHANGED << request, response >>
  \/ \E r \in DOMAIN runs : Settle(r)

\* Every health probe, target request, load-generator subprocess and file
\* operation that is pending settles at some time.
SpecLive == Init /\ [][NextLive]_vars /\ WF_vars(\E r \in DOMAIN runs : Settle(r))

\* The same runs in a process that found the store of earlier processes.
\* Runs in flight at the same time against a store that is already full,
\* the services healthy, the client keeping at most two runs in flight.
NextStore ==
  \/ /\ Len(runs) < MaxConcRuns
     /\ Cardinality({r \in DOMAIN runs : pc[r] # "done"}) < 2
     /\ \E t \in ConcKinds : \E now \in Now : startBenchmark(t, NoConfig, now)
     /\ UNCHANGED << request, response >>
  \/ \E r \in DOMAIN runs :
       \E payload \in {p \in HealthPayloads : ~p.error /\ p.runtime} :
         HealthBun(r, payload)
  \/ \E r \in DOMAIN runs :
       \E payload \in {p \in HealthPayloads : ~p.error /\ p.runtime} :
         HealthNodejs(r, payload)
  \/ \E r \in DOMAIN runs : PhaseReturn(r)
  \/ \E r \in DOMAIN runs : \E ok \in BOOLEAN : SaveStep(r, ok)
  \/ \E r \in DOMAIN runs : IndexRead(r)
  \/ \E r \in DOMAIN runs : \E ok \in BOOLEAN : IndexWrite(r, ok)

SpecStore == InitBoot /\ [][NextStore]_vars

TypeOK ==
  /\ clock \in 0..MaxClock
  /\ Len(runs) <= MaxRuns + MaxConcRuns + MaxSeqRuns
  /\ \A r \in DOMAIN runs :
       /\ runs[r].status \in {"running", "complete", "error"}
       /\ runs[r].id \in RunIds
       /\ pc[r] \in {"health_bun", "health_nodejs", "phase", "index_read", "index_write", "done"}
                      \cup DOMAIN SaveNext


\* ------------------------------------------ functions called on their own
\* The program variables, which a function called on its own leaves alone.
program == << clock, runs, activeRuns, pc, phase, healthBun, trace, files, indexFile,
              indexLocal, request, response >>

\* The values i = from, from + step, ... of `for (i = from; i <= max; i += step)`.
Loop(from, step, max) ==
  [k \in 1..(IF max < from THEN 0 ELSE (max - from) \div step + 1) |->
     from + (k - 1) * step]

\* Mutant: the ceiling is not added when the steps do not end on it.
generateConcurrencyLevels_NoEnsureMax(maxConcurrency) ==
  IF maxConcurrency <= 500
    THEN SelectSeq(Loop(50, 50, maxConcurrency), LAMBDA i : i <= 100 \/ i % 100 = 0)
    ELSE IF maxConcurrency <= 2000
      THEN SelectSeq(<< 100, 250, 500 >> \o Loop(750, 250, maxConcurrency),
                     LAMBDA l : l <= maxConcurrency)
      ELSE << 100, 500, 1000 >> \o Loop(1500, 500, maxConcurrency)

\* generateConcurrencyLevels(maxConcurrency)
generateConcurrencyLevels(maxConcurrency) ==
  LET levels ==
        IF maxConcurrency <= 500
          THEN SelectSeq(Loop(50, 50, maxConcurrency), LAMBDA i : i <= 100 \/ i % 100 = 0)
          ELSE IF maxConcurrency <= 2000
            THEN << 100, 250, 500 >> \o Loop(750, 250, maxConcurrency)
            ELSE << 100, 500, 1000 >> \o Loop(1500, 500, maxConcurrency)
      withMax ==
        IF Len(levels) = 0 \/ levels[Len(levels)] # maxConcurrency
          THEN Append(levels, maxConcurrency)
          ELSE levels
  IN SelectSeq(withMax, LAMBDA l : l <= maxConcurrency)

\* The ceilings generateConcurrencyLevels is called with.
MaxCeiling == 2600

\* ----- numbers and their decimal numerals
RECURSIVE Pow10(_)
Pow10(d) == IF d = 0 THEN 1 ELSE 10 * Pow10(d - 1)

RECURSIVE SumSeq(_)
SumSeq(q) == IF Len(q) = 0 THEN 0 ELSE q[1] + SumSeq(Tail(q))

\* Math.round(num / den) for num >= 0, den > 0: to the nearest integer,
\* a half upwards.
MathRound(num, den) == (2 * num + den) \div (2 * den)

\* (num / den).toFixed(digits) for num >= 0, den > 0: the decimal numeral
\* with that many fraction digits nearest to the quotient, kept as the
\* integer its digits spell (2.5 to two digits is 250).
toFixed(num, den, digits) ==
  [digits |-> digits, scaled |-> MathRound(num * Pow10(digits), den)]

\* The number 0 where the code keeps a number and not a numeral.
Zero == [digits |-> 0, scaled |-> 0]

\* parseFloat(numeral) < n and parseFloat(numeral) >= n
LessThan(numeral, n) == numeral.scaled < n * Pow10(numeral.digits)

AtLeast(numeral, n) == ~LessThan(numeral, n)

\* ----- runConcurrentSessionsTest
\* What one `hey` call of the ramp ends with: it throws, or its output
\* gives a total and, in its error distribution, one line "[n] Get ...
\* error" for each kind of error, n being the number of requests that
\* failed that way.
HeyOutcomes ==
  {[throw |-> TRUE, total |-> 0, lines |-> << >>]} \cup
  {[throw |-> FALSE, total |-> o[1], lines |-> o[2]] :
     o \in {<< 0, << >> >>, << 20, << >> >>, << 20, << 1 >> >>,
            << 20, << 1, 1 >> >>, << 20, << 10 >> >>}}

\* `result.match(/\[(\d+)\]\s+Get.*error/g)`, then `errorMatch.length`:
\* the number of error lines.
errors(lines) == Len(lines)

\* The ceilings the ramp is called with.
RampCeilings == {30, 100, 300, 2000}

\* `metrics.totalRequests > 0 ? ((total - errors) / total * 100).toFixed(1) : 0`
successRate(totalRequests, errorCount) ==
  IF totalRequests > 0
    THEN toFixed((totalRequests - errorCount) * 100, totalRequests, 1)
    ELSE Zero

\* One pass of the loop over the levels: the `hey` call of the next level
\* settles, its record is pushed, and the loop is left when the call threw
\* or the success rate is below 95.
RampLevel(outcome) ==
  /\ call.fn = "runConcurrentSessionsTest"
  /\ result = Null /\ ~call.done
  /\ Len(call.results) < Len(call.levels)
  /\ LET concurrency == call.levels[Len(call.results) + 1]
         rate == successRate(outcome.total, errors(outcome.lines))
     IN call' = [call EXCEPT
                   !.results = Append(@, [concurrency |-> concurrency,
                                          error |-> outcome.throw,
                                          success_rate |-> IF outcome.throw THEN Zero ELSE rate]),
                   !.outcomes = Append(@, outcome),
                   !.done = outcome.throw \/ LessThan(rate, 95)]
  /\ UNCHANGED << result, program >>

\* `!r.error && parseFloat(r.success_rate) >= 95`
Sustained(r) == ~r.error /\ AtLeast(r.success_rate, 95)

\* Math.max(...numbers) of a non-empty set.
MathMax(numbers) == CHOOSE n \in numbers : \A k \in numbers : k <= n

MathMin(numbers) == CHOOSE n \in numbers : \A k \in numbers : n <= k

\* The loop is over: the highest sustained level is computed and returned.
RampReturn ==
  /\ call.fn = "runConcurrentSessionsTest"
  /\ result = Null
  /\ call.done \/ Len(call.results) = Len(call.levels)
  /\ LET successfulLevels == SelectSeq(call.results, Sustained)
     IN result' =
          [tested_levels |-> call.results,
           max_sustained_concurrency |->
             IF Len(successfulLevels) > 0
               THEN MathMax({successfulLevels[i].concurrency : i \in DOMAIN successfulLevels})
               ELSE 0,
           target_concurrency |-> call.maxConcurrency]
  /\ UNCHANGED << call, program >>

\* ----- runCpuTest, runFibonacciTest, runJsonTest
IterationExecutors == {"runCpuTest", "runFibonacciTest", "runJsonTest"}

\* The iteration counts the executors are called with.
MaxIterations == 3

\* What the fetch of one iteration ends with: it throws, or the target
\* answers with a duration (the targets measure whole milliseconds of work
\* that takes some).
Durations == {1, 2, 4}

IterationOutcomes ==
  {[throw |-> TRUE, ms |-> 0]} \cup {[throw |-> FALSE, ms |-> d] : d \in Durations}

\* One pass of the loop: the sample the executor pushes.
Sample(fn, outcome) ==
  IF fn = "runJsonTest"
    THEN [error |-> outcome.throw, total_ms |-> outcome.ms]
    ELSE [error |-> FALSE, total_ms |-> IF outcome.throw THEN 0 ELSE outcome.ms]

Iterate(outcome) ==
  /\ call.fn \in IterationExecutors
  /\ result = Null
  /\ Len(call.samples) < call.iterations
  /\ call' = [call EXCEPT !.samples = Append(@, Sample(call.fn, outcome)),
                          !.outcomes = Append(@, outcome)]
  /\ UNCHANGED << result, program >>

\* Mutant: every sample counts.
ValidSamples_All(fn, samples) == samples

\* `times.filter(t => t > 0)` and `results.filter(r => !r.error)`
ValidSamples(fn, samples) ==
  IF fn = "runJsonTest"
    THEN SelectSeq(samples, LAMBDA r : ~r.error)
    ELSE SelectSeq(samples, LAMBDA r : r.total_ms > 0)

\* The loop is over: the averages are computed and returned.
IterationsReturn ==
  /\ call.fn \in IterationExecutors
  /\ result = Null
  /\ Len(call.samples) = call.iterations
  /\ LET valid == ValidSamples(call.fn, call.samples)
         times == [i \in DOMAIN valid |-> valid[i].total_ms]
         values == {times[i] : i \in DOMAIN times}
     IN result' =
          IF call.fn = "runJsonTest"
            THEN [iterations |-> call.iterations,
                  successful_iterations |-> Len(valid),
                  avg_total_ms |-> IF Len(valid) > 0
                                     THEN toFixed(SumSeq(times), Len(valid), 3)
                                     ELSE toFixed(0, 1, 3)]
            ELSE [iterations |-> call.iterations,
                  avg_duration_ms |-> IF Len(valid) > 0
                                        THEN MathRound(SumSeq(times), Len(valid))
                                        ELSE 0,
                  min_duration_ms |-> IF call.fn = "runCpuTest" /\ Len(valid) > 0
                                        THEN MathMin(values) ELSE 0,
                  max_duration_ms |-> IF call.fn = "runCpuTest" /\ Len(valid) > 0
                                        THEN MathMax(values) ELSE 0,
                  all_durations_ms |-> [i \in DOMAIN call.samples |-> call.samples[i].total_ms]]
  /\ UNCHANGED << call, program >>

\* generateConcurrencyLevels is called and returns.
CallLevels ==
  /\ call.fn = "generateConcurrencyLevels"
  /\ result = Null
  /\ result' = [levels |-> generateConcurrencyLevels(call.maxConcurrency)]
  /\ UNCHANGED << call, program >>

\* ----- calculateSummary, by the values it computes
\* JavaScript values: undefined, null, NaN, a number (scaled / 10^digits,
\* not negative), a string that is a decimal numeral, the strings "N/A" and
\* "NaN", an object (v: its properties; a property it lacks reads
\* undefined), and the TypeError a property read of undefined or null throws.
Undefined == [type |-> "undefined"]

JsNull == [type |-> "null"]

NaN == [type |-> "NaN"]

TypeError == [type |-> "TypeError"]

Number(numeral) == [type |-> "number", digits |-> numeral.digits, scaled |-> numeral.scaled]

String(numeral) ==
  [type |-> "string", text |-> "numeral", digits |-> numeral.digits, scaled |-> numeral.scaled]

NotAvailable == [type |-> "string", text |-> "N/A"]

NaNString == [type |-> "string", text |-> "NaN"]

Object(v) == [type |-> "object", v |-> v]

\* The metric fields calculateSummary reads from an executor's record.
MetricFields ==
  {"requests_per_second", "avg_duration_ms", "throughput_mbps",
   "max_sustained_concurrency", "avg_total_ms"}

\* `object.field`
Field(object, f) ==
  IF object.type = "object" THEN object.v[f]
  ELSE IF object.type \in {"undefined", "null", "TypeError"} THEN TypeError
  ELSE Undefined

\* Mutant: the optional chain is a plain property read.
OptField_Strict(object, f) == Field(object, f)

\* `object?.field`
OptField(object, f) ==
  IF object.type \in {"undefined", "null"} THEN Undefined ELSE Field(object, f)

\* The value is truthy: an object, a non-empty string, a number other than 0.
Truthy(x) ==
  \/ x.type = "object"
  \/ x.type = "string"
  \/ x.type = "number" /\ x.scaled # 0

\* parseFloat(x)
parseFloat(x) ==
  IF x.type = "number" THEN x
  ELSE IF x.type = "string" /\ x.text = "numeral" THEN Number(x)
  ELSE NaN

\* The number a value is converted to by `>` and `/`.
ToNumber(x) ==
  IF x.type = "null" THEN Number(Zero)
  ELSE IF x.type = "undefined" THEN NaN
  ELSE parseFloat(x)

\* `x > 0`
Positive(x) == ToNumber(x).type = "number" /\ ToNumber(x).scaled > 0

\* `denominator > 0 ? (numerator / denominator).toFixed(2) : "N/A"`
ratio(numerator, denominator) ==
  IF ~Positive(denominator) THEN NotAvailable
  ELSE IF ToNumber(numerator).type # "number" THEN NaNString
  ELSE LET n == ToNumber(numerator)
           d == ToNumber(denominator)
           shift == IF d.digits > n.digits THEN d.digits - n.digits ELSE 0
           unshift == IF n.digits > d.digits THEN n.digits - d.digits ELSE 0
       IN String(toFixed(n.scaled * Pow10(shift), d.scaled * Pow10(unshift), 2))

\* How a branch reads a metric: as it is, `x || 0`, or `parseFloat(x) || 0`.
ReadMetric(mode, x) ==
  IF mode = "raw" THEN x
  ELSE IF mode = "or0" THEN (IF Truthy(x) THEN x ELSE Number(Zero))
  ELSE (IF Truthy(parseFloat(x)) THEN parseFloat(x) ELSE Number(Zero))

\* Mutant: every kind divides Bun's metric by Node.js's.
Improvement_BunOverNode(better, bunX, nodeX) == ratio(bunX, nodeX)

\* Rates: `nodeX > 0 ? (bunX / nodeX).toFixed(2) : "N/A"`; durations:
\* `bunMs > 0 ? (nodeMs / bunMs).toFixed(2) : "N/A"`.
Improvement(better, bunX, nodeX) ==
  IF better = "higher" THEN ratio(bunX, nodeX) ELSE ratio(nodeX, bunX)

\* The branches for the single kinds: the key of the ratio, the metric, how
\* it is read, which way is better, and whether requests_per_second is
\* copied as well.
SummaryBranches ==
  [t \in DOMAIN TEST_TYPES \ {"full-suite"} |->
     CASE t \in {"throughput-todos", "throughput-health"} ->
            [key |-> "throughput", field |-> "requests_per_second", mode |-> "or0", better |-> "higher", rps |-> FALSE]
       [] t = "cpu-heavy" ->
            [key |-> "cpu", field |-> "avg_duration_ms", mode |-> "or0", better |-> "lower", rps |-> FALSE]
       [] t = "fibonacci" ->
            [key |-> "fibonacci", field |-> "avg_duration_ms", mode |-> "or0", better |-> "lower", rps |-> FALSE]
       [] t = "network-egress" ->
            [key |-> "egress", field |-> "throughput_mbps", mode |-> "parse", better |-> "higher", rps |-> TRUE]
       [] t = "network-inbound" ->
            [key |-> "inbound", field |-> "throughput_mbps", mode |-> "parse", better |-> "higher", rps |-> TRUE]
       [] t = "concurrent-sessions" ->
            [key |-> "concurrency", field |-> "max_sustained_concurrency", mode |-> "or0", better |-> "higher", rps |-> FALSE]
       [] t = "json-processing" ->
            [key |-> "json", field |-> "avg_total_ms", mode |-> "parse", better |-> "lower", rps |-> FALSE]]

\* The blocks of the full-suite branch, by the key of their ratio.
SuiteBlocks ==
  [k \in DOMAIN SuiteImprovements |->
     CASE k = "throughputTodos" -> [field |-> "requests_per_second", mode |-> "raw", better |-> "higher"]
       [] k = "cpu"             -> [field |-> "avg_duration_ms", mode |-> "raw", better |-> "lower"]
       [] k = "fibonacci"       -> [field |-> "avg_duration_ms", mode |-> "raw", better |-> "lower"]
       [] k = "networkEgress"   -> [field |-> "throughput_mbps", mode |-> "parse", better |-> "higher"]
       [] k = "networkInbound"  -> [field |-> "throughput_mbps", mode |-> "parse", better |-> "higher"]
       [] k = "concurrent"      -> [field |-> "max_sustained_concurrency", mode |-> "or0", better |-> "higher"]
       [] k = "json"            -> [field |-> "avg_total_ms", mode |-> "parse", better |-> "lower"]]

\* `results.<target>?.throughput?.todos` and `results.<target>?.<sub-test>`
SubTestRecord(target, k) ==
  IF k = "throughputTodos"
    THEN OptField(OptField(target, "throughput"), "todos")
    ELSE OptField(target, SuiteImprovements[k])

\* calculateSummary: the summary it returns, or the TypeError it throws.
summaryOf(results, testType) ==
  IF testType = "full-suite"
    THEN LET guards == {SubTestRecord(results.bun, k) : k \in DOMAIN SuiteBlocks}
                         \cup {SubTestRecord(results.nodejs, k) : k \in DOMAIN SuiteBlocks}
             keys == {k \in DOMAIN SuiteBlocks :
                        /\ Truthy(SubTestRecord(results.bun, k))
                        /\ Truthy(SubTestRecord(results.nodejs, k))}
         IN IF TypeError \in guards THEN TypeError
            ELSE Object([testType |-> testType,
                         improvements |->
                           [k \in keys |->
                              LET b == SuiteBlocks[k]
                              IN Improvement(b.better,
                                   ReadMetric(b.mode, Field(SubTestRecord(results.bun, k), b.field)),
                                   ReadMetric(b.mode, Field(SubTestRecord(results.nodejs, k), b.field)))]])
    ELSE LET b == SummaryBranches[testType]
             reads == {OptField(results.bun, b.field), OptField(results.nodejs, b.field)}
                        \cup (IF b.rps THEN {OptField(results.bun, "requests_per_second"),
                                              OptField(results.nodejs, "requests_per_second")}
                                       ELSE {})
             bunX == ReadMetric(b.mode, OptField(results.bun, b.field))
             nodeX == ReadMetric(b.mode, OptField(results.nodejs, b.field))
         IN IF TypeError \in reads THEN TypeError
            ELSE Object([testType |-> testType,
                         improvements |-> [k \in {b.key} |-> Improvement(b.better, bunX, nodeX)],
                         bunX |-> bunX,
                         nodeX |-> nodeX,
                         bunRps |-> IF b.rps THEN ReadMetric("or0", OptField(results.bun, "requests_per_second"))
                                             ELSE Undefined,
                         nodeRps |-> IF b.rps THEN ReadMetric("or0", OptField(results.nodejs, "requests_per_second"))
                                              ELSE Undefined])

\* The values a metric is given: absent, null, or one of these numbers,
\* written the way the executor writes that metric (a number, or a numeral:
\* throughput_mbps is a toFixed(2), avg_total_ms a toFixed(3)).  No quotient
\* of two of the numbers lies halfway between two numerals.
MetricNumbers == {0, 3, 20, 50}

MetricLevels == {Undefined, JsNull} \cup {Number(toFixed(n, 1, 0)) : n \in MetricNumbers}

MetricValue(f, level) ==
  IF level.type # "number" THEN level
  ELSE IF f = "throughput_mbps" THEN String(toFixed(level.scaled, 1, 2))
  ELSE IF f = "avg_total_ms" THEN String(toFixed(level.scaled, 1, 3))
  ELSE level

\* An executor's record whose metrics all are at one level.
ExecutorRecord(level) == Object([f \in MetricFields |-> MetricValue(f, level)])

\* What results.<target> is for a single kind: undefined, null (as
\* startBenchmark leaves it), or an executor's record.
TargetResults == {Undefined, JsNull} \cup {ExecutorRecord(level) : level \in MetricLevels}

\* The properties of results.<target> in a full-suite run.
SuiteProperties ==
  {"throughput", "cpu", "fibonacci", "networkEgress", "networkInbound", "concurrent", "json"}

\* The sets of sub-tests with a record: all but at most one, or at most one.
SuitePresent ==
  LET all == {"throughput.todos", "throughput.health", "cpu", "fibonacci",
              "networkEgress", "networkInbound", "concurrent", "json"}
  IN {all} \cup {all \ {t} : t \in all} \cup {{t} : t \in all} \cup {{}}

\* results.<target> of a full-suite run: the sub-tests in `present` have a
\* record, the others are null (throughput: a property the object lacks,
\* and no throughput object at all when neither has one).
SuiteTarget(present, level) ==
  Object([p \in SuiteProperties |->
            IF p = "throughput"
              THEN IF present \cap {"throughput.todos", "throughput.health"} = {}
                     THEN Undefined
                     ELSE Object([e \in {"todos", "health"} |->
                                    IF ("throughput." \o e) \in present
                                      THEN ExecutorRecord(level) ELSE Undefined])
              ELSE IF p \in present THEN ExecutorRecord(level) ELSE JsNull])

SuiteTargetResults ==
  {Undefined, JsNull} \cup
  {SuiteTarget(present, level) : present \in SuitePresent, level \in MetricLevels}

\* calculateSummary is called and returns or throws.
CallSummary ==
  /\ call.fn = "calculateSummary"
  /\ result = Null
  /\ result' = summaryOf(call.results, call.testType)
  /\ UNCHANGED << call, program >>

\* ----- runFullSuite, time allocation
\* The budgets, in minutes, the suite is called with.
MaxMinutes == 25

\* Mutant: the slice has no minimum.
perTestDuration_NoMinimum(suiteDurationMinutes) ==
  (suiteDurationMinutes * 60 - 30 - 120) \div 8

\* `Math.max(30, Math.floor(remainingTime / durationBasedRuns))`
perTestDuration(suiteDurationMinutes) ==
  MathMax({30, (suiteDurationMinutes * 60 - 30 - 120) \div 8})

\* `${perTestDuration}s`
testDuration(suiteDurationMinutes) ==
  ToString(perTestDuration(suiteDurationMinutes)) \o "s"

\* `Math.min(maxConcurrency, m >= 20 ? 2000 : m >= 10 ? 1000 : 500)`
concurrentTarget(maxConcurrency, suiteDurationMinutes) ==
  MathMin({maxConcurrency,
           IF suiteDurationMinutes >= 20 THEN 2000
           ELSE IF suiteDurationMinutes >= 10 THEN 1000 ELSE 500})

\* The executors that take a duration.
DurationBased == {"runThroughputTest", "runNetworkEgressTest", "runNetworkInboundTest"}

\* The duration and the ceiling each of the sixteen executor calls of the
\* suite is given ("" and 0 where the executor has no such parameter; the
\* ramp's duration parameter is the literal "10s").
SuiteArguments(maxConcurrency, suiteDurationMinutes) ==
  [i \in DOMAIN SuitePhases |->
     LET exec == SuitePhases[i].exec
     IN [exec |-> exec,
         duration |-> IF exec \in DurationBased THEN testDuration(suiteDurationMinutes)
                      ELSE IF exec = "runConcurrentSessionsTest" THEN "10s"
                      ELSE "",
         maxConcurrency |-> IF exec = "runConcurrentSessionsTest"
                              THEN concurrentTarget(maxConcurrency, suiteDurationMinutes)
                              ELSE 0]]

\* runFullSuite is called for a run: the arguments of its executor calls.
CallSuite ==
  /\ call.fn = "runFullSuite"
  /\ result = Null
  /\ result' = [calls |-> SuiteArguments(call.maxConcurrency, call.suiteDurationMinutes)]
  /\ UNCHANGED << call, program >>

\* ----- getResultsDir
primaryDir == "/results"

fallbackDir == "/tmp/benchmark-results"

\* The file system the process starts on: whether each directory exists,
\* whether mkdirSync can create it, whether files can be written in the
\* primary one.
FileSystems ==
  [primaryExists : BOOLEAN, primaryCreatable : BOOLEAN, primaryWritable : BOOLEAN,
   fallbackExists : BOOLEAN, fallbackCreatable : BOOLEAN]

\* getResultsDir.  existsSync and mkdirSync are synchronous and throw into
\* the catch block; Bun.write returns a promise, which is not awaited: the
\* function returns primaryDir before the write settles, and a failed write
\* is a rejection of that promise, which nothing handles.
getResultsDir(fs) ==
  IF fs.primaryExists \/ fs.primaryCreatable
    THEN [dir |-> primaryDir,
          writeTest |-> IF fs.primaryWritable THEN "fulfilled" ELSE "rejected",
          log |-> << >>]
    ELSE [dir |-> fallbackDir,
          writeTest |-> "none",
          log |-> << "[Storage] Primary dir not available" >> \o
                  (IF fs.fallbackExists \/ fs.fallbackCreatable
                     THEN << >>
                     ELSE << "[Storage] Failed to create fallback directory" >>)]

\* The module is loaded: `const RESULTS_DIR = getResultsDir()`.
CallResultsDir ==
  /\ call.fn = "getResultsDir"
  /\ result = Null
  /\ result' = getResultsDir(call.fs)
  /\ UNCHANGED << call, program >>

\* ----- parseHeyOutput
\* A text is a sequence of lines, a line a sequence of characters.
Whitespace == {" ", "\t"}

DecimalDigits == << "0", "1", "2", "3", "4", "5", "6", "7", "8", "9" >>

Letters ==
  [lower |-> << "a", "b", "c", "d", "e", "f", "g", "h", "i", "j", "k", "l", "m", "n", "o", "p", "q", "r", "s", "t", "u", "v", "w", "x", "y", "z" >>,
   upper |-> << "A", "B", "C", "D", "E", "F", "G", "H", "I", "J", "K", "L", "M", "N", "O", "P", "Q", "R", "S", "T", "U", "V", "W", "X", "Y", "Z" >>]

\* text.includes(pattern)
includes(text, pattern) ==
  \E i \in DOMAIN text :
    /\ i + Len(pattern) - 1 <= Len(text)
    /\ SubSeq(text, i, i + Len(pattern) - 1) = pattern

\* The number of characters of the set that follow each other from
\* position i on.
RECURSIVE RunLength(_, _, _)
RunLength(text, i, set) ==
  IF i <= Len(text) /\ text[i] \in set THEN 1 + RunLength(text, i + 1, set) ELSE 0

\* text.split(c) for a separator of one character.
RECURSIVE split(_, _)
split(text, c) ==
  IF \E i \in DOMAIN text : text[i] = c
    THEN LET i == CHOOSE k \in DOMAIN text :
                    text[k] = c /\ \A j \in 1..(k - 1) : text[j] # c
         IN << SubSeq(text, 1, i - 1) >> \o split(SubSeq(text, i + 1, Len(text)), c)
    ELSE << text >>

\* text.trim()
trim(text) ==
  LET kept == {i \in DOMAIN text : text[i] \notin Whitespace}
  IN IF kept = {} THEN << >> ELSE SubSeq(text, MathMin(kept), MathMax(kept))

\* text.trim().split(/\s+/): the words of the line.
RECURSIVE words(_)
words(text) ==
  LET t == trim(text)
      n == RunLength(t, 1, {t[i] : i \in DOMAIN t} \ Whitespace)
  IN IF t = << >> THEN << >>
     ELSE << SubSeq(t, 1, n) >> \o words(SubSeq(t, n + 1, Len(t)))

\* The number a run of digits spells.
RECURSIVE DecimalValue(_)
DecimalValue(digits) ==
  IF digits = << >> THEN 0
  ELSE 10 * DecimalValue(SubSeq(digits, 1, Len(digits) - 1))
       + (CHOOSE i \in DOMAIN DecimalDigits : DecimalDigits[i] = digits[Len(digits)]) - 1

\* A number value written without needless decimals.
RECURSIVE Canonical(_)
Canonical(x) ==
  IF x.digits > 0 /\ x.scaled % 10 = 0
    THEN Canonical([x EXCEPT !.digits = @ - 1, !.scaled = @ \div 10])
    ELSE x

\* parseFloat(text): the number its longest decimal prefix spells, NaN
\* without one.
parseFloatText(text) ==
  LET DigitChars == {DecimalDigits[i] : i \in DOMAIN DecimalDigits}
      from == RunLength(text, 1, Whitespace) + 1
      whole == RunLength(text, from, DigitChars)
      point == from + whole <= Len(text) /\ text[from + whole] = "."
      fraction == IF point THEN RunLength(text, from + whole + 1, DigitChars) ELSE 0
  IN IF whole + fraction = 0 THEN NaN
     ELSE Canonical(Number(
            [digits |-> fraction,
             scaled |-> DecimalValue(SubSeq(text, from, from + whole - 1)) * Pow10(fraction)
                        + DecimalValue(SubSeq(text, from + whole + 1, from + whole + fraction))]))

\* `line.match(/Total data:\s+([\d.]+)\s*(\w+)/)`: the two groups of the
\* leftmost match, the first taking as many characters as leave a word
\* character for the second; matched is FALSE for null.
matchTotalData(line) ==
  LET label == << "T", "o", "t", "a", "l", " ", "d", "a", "t", "a", ":" >>
      DigitChars == {DecimalDigits[i] : i \in DOMAIN DecimalDigits}
      NumberChars == DigitChars \cup {"."}
      WordChars == DigitChars \cup {"_"}
                     \cup {Letters.lower[i] : i \in DOMAIN Letters.lower}
                     \cup {Letters.upper[i] : i \in DOMAIN Letters.upper}
      Number1(i) == i + Len(label) + RunLength(line, i + Len(label), Whitespace)
      Lengths(i) ==
        {k \in 1..RunLength(line, Number1(i), NumberChars) :
           LET unit == Number1(i) + k + RunLength(line, Number1(i) + k, Whitespace)
           IN unit <= Len(line) /\ line[unit] \in WordChars}
      Matches(i) ==
        /\ i + Len(label) - 1 <= Len(line)
        /\ SubSeq(line, i, i + Len(label) - 1) = label
        /\ RunLength(line, i + Len(label), Whitespace) >= 1
        /\ Lengths(i) # {}
  IN IF \E i \in DOMAIN line : Matches(i)
       THEN LET i == CHOOSE k \in DOMAIN line : Matches(k) /\ \A j \in 1..(k - 1) : ~Matches(j)
                k == MathMax(Lengths(i))
                unit == Number1(i) + k + RunLength(line, Number1(i) + k, Whitespace)
            IN [matched |-> TRUE,
                number |-> SubSeq(line, Number1(i), Number1(i) + k - 1),
                unit |-> SubSeq(line, unit, unit + RunLength(line, unit, WordChars) - 1)]
       ELSE [matched |-> FALSE, number |-> << >>, unit |-> << >>]

\* The values before the first line.
HeyDefaults ==
  [rps |-> Number(Zero), avgLatency |-> << "0" >>, p99Latency |-> << "0" >>,
   totalRequests |-> Number(Zero), totalBytes |-> Number(Zero)]

\* One pass of the loop over the lines, m the values before it.
parseLine(line, m) ==
  LET \* `number || 0`
      OrZero(x) == IF Truthy(x) THEN x ELSE Number(Zero)
      \* `line.split(":")[1]?.trim()`, "" for undefined
      afterColon == IF Len(split(line, ":")) < 2 THEN << >> ELSE trim(split(line, ":")[2])
      \* `?.split(" ")[0]`
      firstToken == split(afterColon, " ")[1]
      match == matchTotalData(line)
      \* `match[2].toLowerCase()`
      unit == [i \in DOMAIN match.unit |->
                 IF \E k \in DOMAIN Letters.upper : Letters.upper[k] = match.unit[i]
                   THEN Letters.lower[CHOOSE k \in DOMAIN Letters.upper :
                                        Letters.upper[k] = match.unit[i]]
                   ELSE match.unit[i]]
      factor ==
        IF unit \in {<< "k", "b" >>, << "k", "i", "l", "o", "b", "y", "t", "e", "s" >>}
          THEN 1024
        ELSE IF unit \in {<< "m", "b" >>, << "m", "e", "g", "a", "b", "y", "t", "e", "s" >>}
          THEN 1024 * 1024
        ELSE IF unit \in {<< "g", "b" >>, << "g", "i", "g", "a", "b", "y", "t", "e", "s" >>}
          THEN 1024 * 1024 * 1024
        ELSE 1
      \* `totalBytes *= factor`, NaN staying NaN
      Times(x) == IF x.type = "number" THEN Canonical([x EXCEPT !.scaled = @ * factor]) ELSE x
      rps == IF includes(line, << "R", "e", "q", "u", "e", "s", "t", "s", "/", "s", "e", "c", ":" >>)
               THEN OrZero(parseFloatText(afterColon))
               ELSE m.rps
      avgLatency == IF /\ includes(line, << "A", "v", "e", "r", "a", "g", "e", ":" >>)
                       /\ ~includes(m.avgLatency, << "." >>)
                      THEN (IF firstToken = << >> THEN << "0" >> ELSE firstToken)
                      ELSE m.avgLatency
      p99Latency == IF includes(line, << "9", "9", "%" >>)
                      THEN (IF Len(words(line)) < 2 THEN << "0" >> ELSE words(line)[2])
                      ELSE m.p99Latency
      totalRequests == IF /\ includes(line, << "T", "o", "t", "a", "l", ":" >>)
                          /\ m.totalRequests = Number(Zero)
                         THEN OrZero(parseFloatText(firstToken))
                         ELSE m.totalRequests
      totalBytes == IF /\ includes(line, << "T", "o", "t", "a", "l", " ", "d", "a", "t", "a", ":" >>)
                       /\ match.matched
                      THEN Times(parseFloatText(match.number))
                      ELSE m.totalBytes
  IN [rps |-> rps, avgLatency |-> avgLatency, p99Latency |-> p99Latency,
      totalRequests |-> totalRequests, totalBytes |-> totalBytes]

\* parseHeyOutput(output), output given by its lines: the loop, the last
\* line applied to what the lines before it gave.
RECURSIVE parseHeyOutput(_)
parseHeyOutput(lines) ==
  IF lines = << >> THEN HeyDefaults
  ELSE parseLine(lines[Len(lines)], parseHeyOutput(SubSeq(lines, 1, Len(lines) - 1)))

\* The lines the outputs are made of, each with the label it carries and
\* whether what follows the label is a value in hey's format.
HeyLines ==
  {\* "Requests/sec: 1234.5"
   [text |-> << "R", "e", "q", "u", "e", "s", "t", "s", "/", "s", "e", "c", ":", " ", "1", "2", "3", "4", ".", "5" >>,
    label |-> "Requests/sec:", wellFormed |-> TRUE],
   \* "Requests/sec: 88"
   [text |-> << "R", "e", "q", "u", "e", "s", "t", "s", "/", "s", "e", "c", ":", " ", "8", "8" >>,
    label |-> "Requests/sec:", wellFormed |-> TRUE],
   \* "Requests/sec: fast"
   [text |-> << "R", "e", "q", "u", "e", "s", "t", "s", "/", "s", "e", "c", ":", " ", "f", "a", "s", "t" >>,
    label |-> "Requests/sec:", wellFormed |-> FALSE],
   \* "  Average:\t0.0512 secs"
   [text |-> << " ", " ", "A", "v", "e", "r", "a", "g", "e", ":", "\t", "0", ".", "0", "5", "1", "2", " ", "s", "e", "c", "s" >>,
    label |-> "Average:", wellFormed |-> TRUE],
   \* "  Average:\tNaN secs"
   [text |-> << " ", " ", "A", "v", "e", "r", "a", "g", "e", ":", "\t", "N", "a", "N", " ", "s", "e", "c", "s" >>,
    label |-> "Average:", wellFormed |-> FALSE],
   \* "  99% in 0.2001 secs"
   [text |-> << " ", " ", "9", "9", "%", " ", "i", "n", " ", "0", ".", "2", "0", "0", "1", " ", "s", "e", "c", "s" >>,
    label |-> "99%", wellFormed |-> TRUE],
   \* "  Total:\t10.5 secs"
   [text |-> << " ", " ", "T", "o", "t", "a", "l", ":", "\t", "1", "0", ".", "5", " ", "s", "e", "c", "s" >>,
    label |-> "Total:", wellFormed |-> TRUE],
   \* "Total: 0 secs"
   [text |-> << "T", "o", "t", "a", "l", ":", " ", "0", " ", "s", "e", "c", "s" >>,
    label |-> "Total:", wellFormed |-> TRUE],
   \* "Total data: 2.00 MB"
   [text |-> << "T", "o", "t", "a", "l", " ", "d", "a", "t", "a", ":", " ", "2", ".", "0", "0", " ", "M", "B" >>,
    label |-> "Total data:", wellFormed |-> TRUE],
   \* "Total data: 1 GB"
   [text |-> << "T", "o", "t", "a", "l", " ", "d", "a", "t", "a", ":", " ", "1", " ", "G", "B" >>,
    label |-> "Total data:", wellFormed |-> TRUE],
   \* "Total data: 3 KB"
   [text |-> << "T", "o", "t", "a", "l", " ", "d", "a", "t", "a", ":", " ", "3", " ", "K", "B" >>,
    label |-> "Total data:", wellFormed |-> TRUE],
   \* "Total data: 512 bytes"
   [text |-> << "T", "o", "t", "a", "l", " ", "d", "a", "t", "a", ":", " ", "5", "1", "2", " ", "b", "y", "t", "e", "s" >>,
    label |-> "Total data:", wellFormed |-> TRUE],
   \* "Total data: . MB"
   [text |-> << "T", "o", "t", "a", "l", " ", "d", "a", "t", "a", ":", " ", ".", " ", "M", "B" >>,
    label |-> "Total data:", wellFormed |-> FALSE],
   \* "Summary:"
   [text |-> << "S", "u", "m", "m", "a", "r", "y", ":" >>,
    label |-> "", wellFormed |-> TRUE]}

\* The number of lines of an output.
MaxLines == 2

\* parseHeyOutput is called and returns.
CallParse ==
  /\ call.fn = "parseHeyOutput"
  /\ result = Null
  /\ result' = parseHeyOutput([i \in DOMAIN call.output |-> call.output[i].text])
  /\ UNCHANGED << call, program >>

\* The calls a behaviour starts with.
FnCalls ==
  {[fn |-> "generateConcurrencyLevels", maxConcurrency |-> m] : m \in 0..MaxCeiling}
  \cup
  {[fn |-> "runConcurrentSessionsTest", maxConcurrency |-> m,
    levels |-> generateConcurrencyLevels(m), results |-> << >>,
    outcomes |-> << >>, done |-> FALSE] :
     m \in RampCeilings}
  \cup
  {[fn |-> f, iterations |-> n, samples |-> << >>, outcomes |-> << >>] :
     f \in IterationExecutors, n \in 0..MaxIterations}
  \cup
  {[fn |-> "calculateSummary", testType |-> t, results |-> [bun |-> b, nodejs |-> n]] :
     t \in DOMAIN TEST_TYPES \ {"full-suite"}, b \in TargetResults, n \in TargetResults}
  \cup
  {[fn |-> "calculateSummary", testType |-> "full-suite", results |-> [bun |-> b, nodejs |-> n]] :
     b \in SuiteTargetResults, n \in SuiteTargetResults}
  \cup
  {[fn |-> "runFullSuite", run |-> [config |-> [duration |-> d]],
    maxConcurrency |-> c, suiteDurationMinutes |-> m] :
     d \in {"30s", "60s"}, c \in {300, 1000, 1500, 2000, 5000}, m \in 0..MaxMinutes}
  \cup
  {[fn |-> "getResultsDir", fs |-> fs] : fs \in FileSystems}
  \cup
  {[fn |-> "parseHeyOutput", output |-> o] :
     o \in UNION {[1..n -> HeyLines] : n \in 0..MaxLines}}

InitFn ==
  /\ clock = 0
  /\ runs = << >>
  /\ activeRuns = [i \in RunIds |-> 0]
  /\ pc = << >>
  /\ phase = << >>
  /\ healthBun = << >>
  /\ trace = << >>
  /\ files = [i \in RunIds |-> [a \in Artifacts |-> 0]]
  /\ indexFile = << >>
  /\ indexLocal = << >>
  /\ request = Null
  /\ response = Null
  /\ call \in FnCalls
  /\ result = Null

NextFn ==
  \/ CallLevels
  \/ \E outcome \in HeyOutcomes : RampLevel(outcome)
  \/ RampReturn
  \/ \E outcome \in IterationOutcomes : Iterate(outcome)
  \/ IterationsReturn
  \/ CallSummary
  \/ CallSuite
  \/ CallResultsDir
  \/ CallParse

SpecFn == InitFn /\ [][NextFn]_vars

\* ------------------------------------------------------ reading the trace
IsExecutorEvent(e) ==
  e.exec \notin {"fetch", "calculateSummary", "saveResults", "updateRunsIndex"}

\* The executor calls of run object r: starts, returns and throws, in order.
ExecEvents(r) == SelectSeq(trace[r], IsExecutorEvent)

\* The positions of the events of trace[r] with the given exec and ev.
Positions(r, exec, ev) ==
  {i \in DOMAIN trace[r] : trace[r][i].exec = exec /\ trace[r][i].ev = ev}

\* A health fetch of run object r ended with an error payload.
SawErrorPayload(r) == Positions(r, "fetch", "error") # {}

\* Run object r left something in the results store.
Persisted(r) ==
  \/ \E i \in RunIds : \E a \in Artifacts : files[i][a] = r
  \/ \E k \in DOMAIN indexFile : indexFile[k].obj = r
  \/ indexLocal[r] # << >>

Terminal == {"complete", "error"}

\* ---------------------------------------------------------------------- C1
\* C1: the only status changes of a run object are running -> complete and
\* running -> error; a status of complete or error is never written again.
C1_StatusTransitions ==
  [][\A r \in DOMAIN runs :
       runs'[r].status # runs[r].status
         => runs[r].status = "running" /\ runs'[r].status \in Terminal]_vars

\* A run that completed after its phases and a persistence that failed.
C1_Witness ==
  \E r \in DOMAIN runs :
    /\ runs[r].status = "complete"
    /\ \E a \in Artifacts : files[runs[r].id][a] = 0

\* ---------------------------------------------------------------------- C2
\* C2: a run started with a test kind that is not one of the enumerated
\* kinds is in status error at once and never sends a request to a target
\* (no health probe, no executor call).
C2_UnknownKindIsError ==
  \A r \in DOMAIN runs :
    runs[r].testType \notin TestKinds
      => runs[r].status = "error" /\ trace[r] = << >>

\* ---------------------------------------------------------------------- C3
\* C3: once the health probe has returned with an error payload of either
\* target, the run is in status error with the message "Services not
\* healthy", no executor was called, no summary exists and nothing of the
\* run is in the results store.
C3_HealthShortCircuit ==
  \A r \in DOMAIN runs :
    SawErrorPayload(r) /\ pc[r] # "health_nodejs"
      => /\ runs[r].status = "error"
         /\ runs[r].error = "Services not healthy"
         /\ pc[r] = "done"
         /\ ExecEvents(r) = << >>
         /\ runs[r].summary = Null
         /\ Positions(r, "saveResults", "start") = {}
         /\ ~Persisted(r)

\* A probe in which target A was fine and target B gave an error payload.
C3_Witness ==
  \E r \in DOMAIN runs :
    /\ pc[r] = "done"
    /\ \E i \in Positions(r, "fetch", "return") : trace[r][i].target = "bun"
    /\ \E i \in Positions(r, "fetch", "error") : trace[r][i].target = "nodejs"


\* ---------------------------------------------------------------------- C4
\* The run ended in error through the health short-circuit.
HealthShortCircuited(r) ==
  runs[r].status = "error" /\ runs[r].error = "Services not healthy"

\* The progress milestones of the phases of a test kind.
Milestones(testType) ==
  {PhasesOf(testType)[i].progress : i \in DOMAIN PhasesOf(testType)}

\* C4 as stated: after a health short-circuit the progress value is strictly
\* below every phase milestone of the run's test kind, full-suite included.
C4_BelowEveryMilestone ==
  \A r \in DOMAIN runs :
    HealthShortCircuited(r)
      => \A m \in Milestones(runs[r].testType) : runs[r].progress < m

\* C4 amended: after a health short-circuit the progress value is 5; this
\* is strictly below every phase milestone of every kind other than
\* full-suite, and for full-suite it equals the first milestone (5, set in
\* runFullSuite) and is strictly below all the later ones.
C4_AtMostEveryMilestone ==
  \A r \in DOMAIN runs :
    HealthShortCircuited(r)
      => /\ runs[r].progress = 5
         /\ \A i \in DOMAIN PhasesOf(runs[r].testType) :
              IF runs[r].testType = "full-suite" /\ i = 1
                THEN runs[r].progress = PhasesOf(runs[r].testType)[i].progress
                ELSE runs[r].progress < PhasesOf(runs[r].testType)[i].progress

\* A full-suite run that ended through the health short-circuit.
C4_Witness ==
  \E r \in DOMAIN runs :
    HealthShortCircuited(r) /\ runs[r].testType = "full-suite"

\* ---------------------------------------------------------------------- C5
\* C5: when the health probe returns and target A's payload had neither a
\* runtime field nor an error field, the run short-circuits to status error
\* and no phase is started.
C5_NoRuntimeIsUnhealthy ==
  [][\A r \in DOMAIN runs :
       /\ pc[r] = "health_nodejs"
       /\ pc'[r] # "health_nodejs"
       /\ ~healthBun[r].runtime
       /\ ~healthBun[r].error
       => runs'[r].status = "error" /\ pc'[r] = "done"]_vars

\* ---------------------------------------------------------------------- C6
\* C6 as stated: progress of a run object is an integer in 0..100 and no
\* step lowers it, on any path.
C6_ProgressMonotone ==
  [][/\ \A r \in DOMAIN runs' : runs'[r].progress \in 0..100
     /\ \A r \in DOMAIN runs : runs'[r].progress >= runs[r].progress]_vars

\* C6 amended: progress of a run object is an integer in 0..100 and no step
\* lowers it, except the step that catches an exception thrown during a
\* phase: that step puts the run in status error and resets progress to 0.
C6_ProgressMonotoneUnlessCaught ==
  [][/\ \A r \in DOMAIN runs' : runs'[r].progress \in 0..100
     /\ \A r \in DOMAIN runs :
          runs'[r].progress < runs[r].progress
            => /\ runs[r].status = "running"
               /\ runs'[r].status = "error"
               /\ runs'[r].progress = 0
               /\ pc[r] = "phase"
               /\ trace'[r][Len(trace'[r])].ev = "throw"]_vars

\* A run whose executor threw after the run had reached a phase milestone.
C6_Witness ==
  \E r \in DOMAIN runs :
    /\ runs[r].status = "error"
    /\ runs[r].progress = 0
    /\ \E i \in DOMAIN trace[r] : trace[r][i].ev = "throw"

\* ---------------------------------------------------------------------- C7
\* C7: in every state, a run's summary is defined if and only if its status
\* is complete.
C7_SummaryIffComplete ==
  \A r \in DOMAIN runs :
    (runs[r].summary # Null) <=> (runs[r].status = "complete")

\* ------------------------------------------------------------- C8, C9 order
\* The executor events of run object r follow the given list of executors:
\* for each one a call for target A that ends (returns or throws) before the
\* call for target B starts, which ends before the next executor's call for
\* target A starts.  A throw ends the list.
InOrder(r, order) ==
  LET ev == ExecEvents(r)
  IN /\ Len(ev) <= 4 * Len(order)
     /\ \A i \in DOMAIN ev :
          LET p == ((i - 1) \div 4) + 1
              w == (i - 1) % 4
          IN /\ ev[i].exec = order[p][1]
             /\ ev[i].arg = order[p][2]
             /\ ev[i].target = (IF w < 2 THEN "bun" ELSE "nodejs")
             /\ IF w \in {0, 2} THEN ev[i].ev = "start"
                                ELSE ev[i].ev \in {"return", "throw"}
             /\ ev[i].ev = "throw" => i = Len(ev)

\* The run is past its phases without an exception.
PhasesFinished(r) ==
  pc[r] \in {"index_read", "index_write"} \cup DOMAIN SaveNext
    \/ runs[r].status = "complete"

\* The run passed the health probe.
PassedHealth(r) ==
  /\ pc[r] \notin {"health_bun", "health_nodejs"}
  /\ trace[r] # << >>
  /\ ~SawErrorPayload(r)

\* ---------------------------------------------------------------------- C8
SuiteOrder ==
  << << "runThroughputTest", "/api/todos" >>,
     << "runThroughputTest", "/api/health" >>,
     << "runNetworkEgressTest", "" >>,
     << "runNetworkInboundTest", "" >>,
     << "runCpuTest", "" >>,
     << "runFibonacciTest", "" >>,
     << "runConcurrentSessionsTest", "" >>,
     << "runJsonTest", "" >> >>

KindExecutor ==
  [k \in TestKinds \ {"full-suite"} |->
     CASE k = "throughput-todos"    -> << "runThroughputTest", "/api/todos" >>
       [] k = "throughput-health"   -> << "runThroughputTest", "/api/health" >>
       [] k = "cpu-heavy"           -> << "runCpuTest", "" >>
       [] k = "fibonacci"           -> << "runFibonacciTest", "" >>
       [] k = "network-egress"      -> << "runNetworkEgressTest", "" >>
       [] k = "network-inbound"     -> << "runNetworkInboundTest", "" >>
       [] k = "concurrent-sessions" -> << "runConcurrentSessionsTest", "" >>
       [] k = "json-processing"     -> << "runJsonTest", "" >>]

C10_CompleteAfterPersist ==
  \A r \in DOMAIN runs :
    /\ runs[r].status = "complete"
         => /\ runs[r].progress = 100
            /\ runs[r].endTime # NoTime
            /\ runs[r].summary # Null
            /\ pc[r] = "done"
            /\ Len(ExecEvents(r)) = 2 * Len(PhasesOf(runs[r].testType))
            /\ LET summarised == Positions(r, "calculateSummary", "return")
                   saveStarted == Positions(r, "saveResults", "start")
                   saveReturned == Positions(r, "saveResults", "return")
               IN /\ Cardinality(summarised) = 1
                  /\ Cardinality(saveStarted) = 1
                  /\ saveReturned = {Len(trace[r])}
                  /\ \A i \in summarised : \A j \in saveStarted :
                       /\ i < j /\ j < Len(trace[r])
                       /\ \A n \in 1..Len(trace[r]) :
                            IsExecutorEvent(trace[r][n])
                              => n < i /\ trace[r][n].ev # "throw"
    /\ pc[r] \in {"index_read", "index_write"} \cup DOMAIN SaveNext
         => /\ runs[r].status = "running"
            /\ Positions(r, "saveResults", "return") = {}

\* A run that completed with all its artifacts and its index entry stored.
C10_Witness ==
  \E r \in DOMAIN runs :
    /\ runs[r].status = "complete"
    /\ \A a \in Artifacts : files[runs[r].id][a] = r
    /\ \E k \in DOMAIN indexFile : indexFile[k].obj = r

\* --------------------------------------------------------------------- C11
\* The positions of trace[r] at which an executor call threw.
ThrowPositions(r) ==
  {i \in DOMAIN trace[r] : IsExecutorEvent(trace[r][i]) /\ trace[r][i].ev = "throw"}

\* C11: a run object one of whose executor calls threw has status error and
\* the exception's message in its error field, started nothing afterwards
\* (the throw is the last event of its trace, and saveResults was never
\* entered); and no run object in status error has left an artifact or an
\* index entry in the results store.
C11_ErrorPersistsNothing ==
  \A r \in DOMAIN runs :
    /\ \A i \in ThrowPositions(r) :
         /\ i = Len(trace[r])
         /\ pc[r] = "done"
         /\ runs[r].status = "error"
         /\ runs[r].error = trace[r][i].message
    /\ runs[r].status = "error"
         => ~Persisted(r) /\ Positions(r, "saveResults", "start") = {}

\* A suite run whose upload executor threw for target B, after earlier
\* phases had returned.
C11_Witness ==
  \E r \in DOMAIN runs :
    /\ runs[r].error = "EACCES"
    /\ runs[r].results.bun # {}
    /\ \E i \in ThrowPositions(r) : trace[r][i].target = "nodejs"

\* --------------------------------------------------------------------- C12
\* saveResults of run object r was entered.
SaveEntered(r) == Positions(r, "saveResults", "start") # {}

\* Everything saveResults writes for run object r is in the store.
FullyPersisted(r) ==
  /\ \A a \in Artifacts : files[runs[r].id][a] = r
  /\ \E k \in DOMAIN indexFile : indexFile[k].obj = r

\* C12: a run object that entered saveResults keeps status running while
\* saveResults is pending and, once saveResults is over, has status
\* complete, progress 100 and no error, whether or not every write
\* succeeded.
C12_PersistFailureKeepsComplete ==
  \A r \in DOMAIN runs :
    SaveEntered(r)
      => IF pc[r] = "done"
           THEN /\ runs[r].status = "complete"
                /\ runs[r].progress = 100
                /\ runs[r].error = NoError
           ELSE runs[r].status = "running" /\ runs[r].progress = 95

\* A complete run whose four artifacts were written and whose index write
\* failed.
C12_Witness ==
  \E r \in DOMAIN runs :
    /\ runs[r].status = "complete" /\ runs[r].progress = 100
    /\ \A a \in Artifacts : files[runs[r].id][a] = r
    /\ \A k \in DOMAIN indexFile : indexFile[k].obj # r

IndexWritten(r) == Positions(r, "updateRunsIndex", "return") # {}

\* Run object r has an entry in the index on disk.
InIndex(r) == \E k \in DOMAIN indexFile : indexFile[k].obj = r

\* Run object r read the index when it held no entry of run object s.
ReadWithout(r, s) == \A k \in DOMAIN indexLocal[r] : indexLocal[r][k].obj # s

\* C14: when two run objects each read the index before the other wrote it
\* and both wrote it, the index on disk holds the entry of at most one of
\* them (the later write replaced the earlier one's entry), and both runs
\* are complete.
C14_IndexLostUpdate ==
  \A r, s \in DOMAIN runs :
    (r # s /\ IndexWritten(r) /\ IndexWritten(s)
       /\ ReadWithout(r, s) /\ ReadWithout(s, r))
      => /\ ~(InIndex(r) /\ InIndex(s))
         /\ runs[r].status = "complete" /\ runs[s].status = "complete"

\* Both runs are complete and wrote all their artifacts and the index, and
\* the index holds the entry of exactly one of them.
C14_Witness ==
  \E r, s \in DOMAIN runs :
    /\ r # s
    /\ IndexWritten(r) /\ IndexWritten(s)
    /\ ReadWithout(r, s) /\ ReadWithout(s, r)
    /\ runs[r].status = "complete" /\ runs[s].status = "complete"
    /\ runs[r].id # runs[s].id
    /\ InIndex(s) /\ ~InIndex(r)
    /\ Len(indexFile) = 1

\* --------------------------------------------------------------------- C15
\* C15: any two run objects started in the process have different ids.
C15_RunIdsDistinct ==
  \A r, s \in DOMAIN runs : r # s => runs[r].id # runs[s].id

\* --------------------------------------------------------------------- C16
\* C16: the live mapping holds, under the id startBenchmark returned for a
\* run object, that same run object, whatever was started afterwards.
C16_LiveMappingKeepsRun ==
  \A r \in DOMAIN runs : activeRuns[runs[r].id] = r

\* --------------------------------------------------------------------- C19
\* Run object r takes the step (every step of a run moves its position or
\* extends its trace).
Steps(r) == pc'[r] # pc[r] \/ trace'[r] # trace[r]

\* C19: a step of one run object leaves the record of every other run
\* object as it was (for runs with different ids in particular), and so
\* does the start of a new run.
C19_RunsIndependent ==
  [][/\ \A r, s \in DOMAIN runs :
          (r # s /\ runs[r].id # runs[s].id /\ Steps(r)) => runs'[s] = runs[s]
     /\ Len(runs') > Len(runs) => \A s \in DOMAIN runs : runs'[s] = runs[s]]_vars

\* Two runs with different ids, the second started while the first was
\* running, both past the health probe and in their phases.
C19_Witness ==
  \E r, s \in DOMAIN runs :
    /\ r < s /\ runs[r].id # runs[s].id
    /\ runs[r].status = "running" /\ runs[s].status = "running"
    /\ pc[r] = "phase" /\ pc[s] = "phase"
    /\ runs[r].progress = 20 /\ runs[s].progress = 60

\* --------------------------------------------------------------------- C13
\* The run objects whose updateRunsIndex wrote the index, in the order of
\* their writes (runs that follow one another write in creation order).
PersistOrder == SelectSeq([r \in DOMAIN runs |-> r], IndexWritten)

Reverse(s) == [i \in 1..Len(s) |-> s[Len(s) + 1 - i]]

Min(a, b) == IF a <= b THEN a ELSE b

\* C13: with runs persisted one after the other on top of a history of h
\* entries, the index is the entries of the persisted runs in reverse
\* persist order followed by the history, cut to its first 50: after n
\* persists it has min(h + n, 50) entries, the run persisted last is first,
\* and what is dropped is the oldest end of the history.
C13_IndexNewestFirstCapped ==
  LET n == Len(PersistOrder)
      h == Len(BootIndex)
      fresh == [i \in 1..n |-> Reverse(PersistOrder)[i]]
  IN /\ Len(indexFile) = Min(h + n, IndexCap)
     /\ \A k \in DOMAIN indexFile :
          IF k <= n
            THEN /\ indexFile[k].obj = fresh[k]
                 /\ indexFile[k].id = runs[fresh[k]].id
            ELSE indexFile[k] = BootIndex[k - n]

\* Two runs were persisted on a history of 49: the index holds 50 entries,
\* the second run first, and the oldest entry of the history is gone.
C13_Witness ==
  /\ Len(PersistOrder) = 2
  /\ Len(indexFile) = IndexCap
  /\ indexFile[1].obj = 2 /\ indexFile[2].obj = 1
  /\ indexFile[IndexCap].id = << "old", 2 >>

\* --------------------------------------------------------------------- C18
\* C18: whenever the executor call for target A of a phase has ended, the
\* call of the same executor for target B had been started before that end
\* (the two calls of a phase overlap in time).
C18_TargetsInParallel ==
  \A r \in DOMAIN runs :
    LET ev == ExecEvents(r)
    IN \A i \in DOMAIN ev :
         (ev[i].target = "bun" /\ ev[i].ev # "start")
           => \E j \in 1..(i - 1) :
                /\ ev[j].target = "nodejs" /\ ev[j].ev = "start"
                /\ ev[j].exec = ev[i].exec /\ ev[j].arg = ev[i].arg

\* --------------------------------------------------------------------- C20
\* The id has an entry in the live mapping.
Live(runId) == runId \in DOMAIN activeRuns /\ activeRuns[runId] # 0

\* C20: a status request for a live id is answered at once with code 200
\* and the run object's record; a request for an id that is not live waits
\* for the disk, and is then answered with code 200, status complete,
\* progress 100, the two stored result records and the stored summary when
\* all four artifacts of the id are readable, and with 404 otherwise.  A
\* response with a non-terminal status is only given for a live id.
C20_StatusRoute ==
  [][/\ (request = Null /\ request' # Null)
          => ~Live(request'.runId) /\ response' = Null
     /\ (request = Null /\ request' = Null /\ response' # response)
          => /\ Live(response'.runId)
             /\ response'.code = 200
             /\ response'.body = runs[activeRuns[response'.runId]]
     /\ (request # Null /\ request' = Null)
          => LET runId == request.runId
             IN /\ response'.runId = runId
                /\ IF \A a \in Artifacts : Readable(runId, a)
                     THEN /\ response'.code = 200
                          /\ response'.body.id = runId
                          /\ response'.body.status = "complete"
                          /\ response'.body.progress = 100
                          /\ response'.body.results.bun = FileContent(runId, "bun-results.json")
                          /\ response'.body.results.nodejs = FileContent(runId, "nodejs-results.json")
                          /\ response'.body.summary = FileContent(runId, "summary.json").summary
                     ELSE /\ response'.code = 404
                          /\ response'.body = [error |-> "Run not found"]
     /\ (response' # response /\ response' # Null /\ response'.code = 200
           /\ response'.body.status \notin Terminal)
          => Live(response'.runId)]_vars

\* A 404 was sent for the old id whose directory holds config.json only,
\* while the run of this process is still running.
C20_Witness ==
  /\ response # Null
  /\ response.runId = << "old", 0 >>
  /\ response.code = 404
  /\ \E r \in DOMAIN runs : runs[r].status = "running"

\* --------------------------------------------------------------------- C21
\* The step is a POST /api/run answered for a JSON object body.
PostAnswered == response' # response /\ response'.code # 500

\* C21: a POST /api/run whose testType is left out or is none of the test
\* kinds is answered 400 and leaves the run objects, the live mapping and
\* the traces as they were; one with a test kind is answered 200 with
\* {runId, status: "started"}, adds one run object and puts it in the live
\* mapping under runId, changing no other key.
C21_PostRunValidates ==
  [][PostAnswered =>
       LET req == response'.req
       IN IF ~Has(req, "testType") \/ req.testType \notin TestKinds
            THEN /\ response'.code = 400
                 /\ runs' = runs /\ activeRuns' = activeRuns /\ trace' = trace
            ELSE /\ response'.code = 200
                 /\ response'.body.status = "started"
                 /\ Len(runs') = Len(runs) + 1
                 /\ runs'[Len(runs')].id = response'.body.runId
                 /\ activeRuns' = [activeRuns EXCEPT ![response'.body.runId] = Len(runs')]]_vars

\* --------------------------------------------------------------------- C22
\* C22: the config of a run started through POST /api/run has, for each of
\* the five config fields, the value of the body when the body gives one
\* and the default otherwise.
C22_BodyConfigReachesRun ==
  [][(PostAnswered /\ response'.code = 200) =>
       LET req == response'.req
           run == runs'[Len(runs')]
       IN \A f \in ConfigFields :
            run.config[f] = IF Has(req, f) THEN req.v[f] ELSE ConfigDefaults[f]]_vars

\* --------------------------------------------------------------------- C23
\* C23: getRunDetails gives the four artifacts when all four are readable
\* and null otherwise, and GET /api/reports/:id answers 200 with exactly
\* those four in the first case and 404 in the second.
C23_ReportAllOrNotFound ==
  [][response' # response =>
       LET runId == response'.runId
       IN IF \A a \in Artifacts : Readable(runId, a)
            THEN /\ getRunDetails(runId) # Null
                 /\ response'.code = 200
                 /\ response'.body =
                      [config |-> FileContent(runId, "config.json"),
                       bunResults |-> FileContent(runId, "bun-results.json"),
                       nodejsResults |-> FileContent(runId, "nodejs-results.json"),
                       summary |-> FileContent(runId, "summary.json")]
            ELSE /\ getRunDetails(runId) = Null
                 /\ response'.code = 404
                 /\ response'.body = [error |-> "Report not found"]]_vars

\* A report was asked for a complete run of this process whose persistence
\* failed after some of the artifacts, and was answered 404.
C23_Witness ==
  /\ response # Null /\ response.code = 404
  /\ \E r \in DOMAIN runs :
       /\ runs[r].id = response.runId
       /\ runs[r].status = "complete"
       /\ files[runs[r].id]["bun-results.json"] = r
       /\ files[runs[r].id]["summary.json"] = 0

\* --------------------------------------------------------------------- C24
\* C24: for a run object that was persisted without a write failure,
\* getRunDetails of its id gives the run's config, its two result records
\* and (in the summary artifact) its summary, also after later persists.
C24_StoreRoundTrip ==
  \A r \in DOMAIN runs :
    IndexWritten(r) =>
      LET details == getRunDetails(runs[r].id)
      IN /\ details # Null
         /\ details.config = runs[r].config
         /\ details.bunResults = runs[r].results.bun
         /\ details.nodejsResults = runs[r].results.nodejs
         /\ details.summary.summary = runs[r].summary

\* --------------------------------------------------------------------- C29
\* C29: the list generateConcurrencyLevels returns for a ceiling m has no
\* level above m, is strictly increasing and ends with m.
C29_LevelsEndWithCeiling ==
  (call.fn = "generateConcurrencyLevels" /\ result # Null) =>
    LET m == call.maxConcurrency
        levels == result.levels
    IN /\ Len(levels) >= 1
       /\ levels[Len(levels)] = m
       /\ \A i \in DOMAIN levels : levels[i] <= m
       /\ \A i \in DOMAIN levels : i > 1 => levels[i - 1] < levels[i]

\* The levels for a ceiling off the 250 steps: the steps and then the
\* ceiling itself.
C29_Witness ==
  /\ call.fn = "generateConcurrencyLevels" /\ result # Null
  /\ call.maxConcurrency = 1600
  /\ result.levels = << 100, 250, 500, 750, 1000, 1250, 1500, 1600 >>

\* --------------------------------------------------------------------- C30
\* The level's call did not fail and at least 95% of its requests completed
\* without error.
Completed95(outcome) ==
  /\ ~outcome.throw
  /\ outcome.total > 0
  /\ (outcome.total - SumSeq(outcome.lines)) * 100 >= 95 * outcome.total

\* C30: the levels the ramp has tested are the first of the generated
\* levels, in order; every tested level but the last had a success rate
\* (requests completed without error out of the total) of at least 95% and
\* no failed call; and max_sustained_concurrency is the highest tested
\* level with such a rate, 0 without one.
C30_RampStopsBelowThreshold ==
  call.fn = "runConcurrentSessionsTest" =>
    LET generated == generateConcurrencyLevels(call.maxConcurrency)
        tested == call.results
        sustained == {tested[i].concurrency :
                        i \in {j \in DOMAIN tested : Completed95(call.outcomes[j])}}
    IN /\ Len(tested) <= Len(generated)
       /\ \A i \in DOMAIN tested :
            /\ tested[i].concurrency = generated[i]
            /\ i < Len(tested) => Completed95(call.outcomes[i])
       /\ result # Null =>
            /\ result.tested_levels = tested
            /\ \A l \in sustained : l <= result.max_sustained_concurrency
            /\ result.max_sustained_concurrency \in sustained \cup {0}

\* --------------------------------------------------------------------- C28
\* The durations of the iterations that did not fail, in order.
GoodDurations(outcomes) ==
  LET good == SelectSeq(outcomes, LAMBDA o : ~o.throw)
  IN [i \in DOMAIN good |-> good[i].ms]

\* C28: an iteration executor makes one request per pass and never more
\* than `iterations`; a failed iteration leaves a zero sample (an error
\* sample in the JSON executor) at its place and the executor goes on; it
\* returns after exactly `iterations` requests, and its average is the
\* average of the durations of the iterations that did not fail, 0 when all
\* failed (for CPU the minimum and the maximum as well).
C28_FailedIterationsSkipped ==
  call.fn \in IterationExecutors =>
    LET good == GoodDurations(call.outcomes)
        k == Len(good)
        total == SumSeq(good)
    IN /\ Len(call.outcomes) = Len(call.samples)
       /\ Len(call.outcomes) <= call.iterations
       /\ \A i \in DOMAIN call.outcomes :
            call.outcomes[i].throw =>
              call.samples[i].error \/ call.samples[i].total_ms = 0
       /\ result # Null =>
            /\ Len(call.outcomes) = call.iterations
            /\ IF call.fn = "runJsonTest"
                 THEN /\ result.successful_iterations = k
                      /\ result.avg_total_ms.digits = 3
                      /\ LET avg == result.avg_total_ms.scaled
                         IN IF k = 0 THEN avg = 0
                            ELSE /\ 2 * (avg * k - 1000 * total) <= k
                                 /\ 2 * (1000 * total - avg * k) < k
                 ELSE LET avg == result.avg_duration_ms
                      IN /\ IF k = 0 THEN avg = 0
                            ELSE /\ 2 * (avg * k - total) <= k
                                 /\ 2 * (total - avg * k) < k
                         /\ Len(result.all_durations_ms) = call.iterations
                         /\ call.fn = "runCpuTest" =>
                              IF k = 0
                                THEN result.min_duration_ms = 0 /\ result.max_duration_ms = 0
                                ELSE /\ \A i \in DOMAIN good :
                                          /\ result.min_duration_ms <= good[i]
                                          /\ good[i] <= result.max_duration_ms
                                     /\ \E i \in DOMAIN good : good[i] = result.min_duration_ms
                                     /\ \E i \in DOMAIN good : good[i] = result.max_duration_ms

\* The CPU executor returned after three iterations of which the second
\* failed: the average of 1 and 4, rounded, is 3.
C28_Witness ==
  /\ call.fn = "runCpuTest" /\ result # Null
  /\ call.iterations = 3
  /\ result.all_durations_ms = << 1, 0, 4 >>
  /\ result.avg_duration_ms = 3
  /\ result.min_duration_ms = 1 /\ result.max_duration_ms = 4

\* --------------------------------------------------------------------- C27
\* The sub-tests of the suite: the places of their records in a target's
\* results.
SuiteSubTests ==
  {"throughput.todos", "throughput.health", "networkEgress", "networkInbound",
   "cpu", "fibonacci", "concurrent", "json"}

\* C27: the summary of a full-suite run has as many ratios as there are
\* sub-tests whose records exist for both targets (one ratio each, none for
\* a sub-test with a record missing).
C27_OneRatioPerSubTest ==
  \A r \in DOMAIN runs :
    (runs[r].testType = "full-suite" /\ runs[r].summary # Null) =>
      Cardinality(runs[r].summary.improvements) =
        Cardinality({t \in SuiteSubTests :
                       t \in runs[r].results.bun /\ t \in runs[r].results.nodejs})

\* --------------------------------------------------------------------- C25
\* The ratios whose kind is a rate (higher is better); the others are
\* durations.
RateKeys ==
  {"throughput", "throughputTodos", "egress", "networkEgress",
   "inbound", "networkInbound", "concurrency", "concurrent"}

\* The metric a ratio is about.
KeyMetric(k) ==
  CASE k \in {"throughput", "throughputTodos"} -> "requests_per_second"
    [] k \in {"cpu", "fibonacci"} -> "avg_duration_ms"
    [] k \in {"egress", "networkEgress", "inbound", "networkInbound"} -> "throughput_mbps"
    [] k \in {"concurrency", "concurrent"} -> "max_sustained_concurrency"
    [] k = "json" -> "avg_total_ms"

\* The property of an object, undefined when there is no object.
Lookup(object, f) == IF object.type = "object" THEN object.v[f] ELSE Undefined

\* The metric of a target that the ratio k of a summary is about.
MetricOf(target, testType, k) ==
  Lookup(IF testType # "full-suite" THEN target
         ELSE IF k = "throughputTodos" THEN Lookup(Lookup(target, "throughput"), "todos")
         ELSE Lookup(target, k),
         KeyMetric(k))

ZeroOrAbsent(x) ==
  \/ x.type \in {"undefined", "null"}
  \/ x.type = "number" /\ x.scaled = 0
  \/ x.type = "string" /\ x.text = "numeral" /\ x.scaled = 0

\* The target whose metric a ratio is divided by.
DenominatorOf(k) == IF k \in RateKeys THEN "nodejs" ELSE "bun"

\* C25: whatever is missing or null in the results object, calculateSummary
\* returns a summary and throws nothing, and every ratio in it whose
\* denominator metric is zero or absent is the string "N/A".
C25_SummaryTotal ==
  (call.fn = "calculateSummary" /\ result # Null) =>
    /\ result.type = "object"
    /\ \A k \in DOMAIN result.v.improvements :
         ZeroOrAbsent(MetricOf(call.results[DenominatorOf(k)], call.testType, k))
           => result.v.improvements[k] = NotAvailable

\* The summary of a cpu-heavy run whose Bun results are still null, as
\* startBenchmark left them: the ratio is "N/A".
C25_Witness ==
  /\ call.fn = "calculateSummary" /\ result # Null
  /\ call.testType = "cpu-heavy"
  /\ call.results.bun = JsNull
  /\ call.results.nodejs = ExecutorRecord(Number(toFixed(50, 1, 0)))
  /\ result.type = "object"
  /\ result.v.improvements["cpu"] = NotAvailable

\* --------------------------------------------------------------------- C26
RECURSIVE DigitsOf(_, _)
DigitsOf(n, d) == IF d = 0 THEN "" ELSE DigitsOf(n \div 10, d - 1) \o ToString(n % 10)

\* The text of a numeral.
Text(x) ==
  ToString(x.scaled \div Pow10(x.digits)) \o
  (IF x.digits = 0 THEN "" ELSE "." \o DigitsOf(x.scaled % Pow10(x.digits), x.digits))

IsNumeric(x) == x.type = "number" \/ (x.type = "string" /\ x.text = "numeral")

\* C26: when both targets have the metric and the divisor is not zero, the
\* ratio is a numeral with two decimals, the nearest to Bun's metric divided
\* by Node.js's for a rate and to Node.js's divided by Bun's for a duration:
\* not below 1.00 when Bun did at least as well as Node.js, not above 1.00
\* when it did not.
C26_RatioOrientation ==
  (call.fn = "calculateSummary" /\ result # Null /\ result.type = "object") =>
    \A k \in DOMAIN result.v.improvements :
      LET a == MetricOf(call.results.bun, call.testType, k)
          b == MetricOf(call.results.nodejs, call.testType, k)
          num == IF k \in RateKeys THEN a ELSE b
          den == IF k \in RateKeys THEN b ELSE a
          r == result.v.improvements[k]
      IN (IsNumeric(a) /\ IsNumeric(b) /\ a.digits = b.digits /\ den.scaled > 0) =>
           /\ r.type = "string" /\ r.text = "numeral" /\ r.digits = 2
           /\ 2 * (r.scaled * den.scaled - 100 * num.scaled) <= den.scaled
           /\ 2 * (100 * num.scaled - r.scaled * den.scaled) <= den.scaled
           /\ LET bunAtLeastAsGood == IF k \in RateKeys THEN a.scaled >= b.scaled
                                                       ELSE a.scaled <= b.scaled
              IN IF bunAtLeastAsGood THEN r.scaled >= 100 ELSE r.scaled <= 100

\* cpu-heavy averages of 20 ms for Bun and 50 ms for Node.js give "2.50".
C26_Witness ==
  /\ call.fn = "calculateSummary" /\ result # Null
  /\ call.testType = "cpu-heavy"
  /\ Lookup(call.results.bun, "avg_duration_ms") = Number(toFixed(20, 1, 0))
  /\ Lookup(call.results.nodejs, "avg_duration_ms") = Number(toFixed(50, 1, 0))
  /\ result.type = "object"
  /\ Text(result.v.improvements["cpu"]) = "2.50"

\* --------------------------------------------------------------------- C34
\* C34: the index entry a run wrote carries, once the run is complete, the
\* end time the live run reports.
C34_IndexCarriesEndTime ==
  \A i \in DOMAIN indexFile :
    LET e == indexFile[i]
    IN (e.obj \in DOMAIN runs /\ runs[e.obj].status = "complete") =>
         e.endTime = runs[e.obj].endTime

\* --------------------------------------------------------------------- C37
\* C37: in every state, whatever the interleaving of the runs in flight,
\* the index holds at most 50 entries, and every id in it has its four
\* artifacts on disk, so that getRunDetails of the id is not null.
C37_IndexedRunsOnDisk ==
  /\ Len(indexFile) <= 50
  /\ \A i \in DOMAIN indexFile :
       /\ \A a \in Artifacts : files[indexFile[i].id][a] # 0
       /\ getRunDetails(indexFile[i].id) # Null

\* Two runs of this process have ended, the index, which a process before
\* had left with 49 entries, is full and headed by one of them, and the
\* other has no entry (a write of its own failed, or the other run's write
\* of the index replaced it).
C37_Witness ==
  /\ Len(indexFile) = 50
  /\ indexFile[1].obj \in DOMAIN runs
  /\ Len(runs) >= 2
  /\ \A r \in DOMAIN runs : pc[r] = "done"
  /\ \E r \in DOMAIN runs : ~InIndex(r)

\* --------------------------------------------------------------------- C38
\* C38: in every state a run object has status error exactly when its error
\* field holds a message, and progress 100 exactly when its status is
\* complete; while its status is running its progress is at most 95 and it
\* has no error.
C38_StatusErrorProgress ==
  \A r \in DOMAIN runs :
    LET run == runs[r]
    IN /\ run.status = "error" <=> (run.error # NoError /\ run.error # "")
       /\ run.progress = 100 <=> run.status = "complete"
       /\ run.status = "running" => (run.progress <= 95 /\ run.error = NoError)

\* A run that had reached a progress mark and was ended by an executor's
\* exception: status error, the message in its error field, progress 0.
C38_Witness ==
  \E r \in DOMAIN runs :
    /\ runs[r].status = "error" /\ runs[r].error \in ThrowMessages
    /\ runs[r].progress = 0
    /\ Positions(r, "fetch", "return") # {}

\* --------------------------------------------------------------------- C36
\* C36: a step of a read route (GET /api/status/:runId, GET /api/reports,
\* GET /api/reports/:id, and getRunStatus, getAllRuns and getRunDetails
\* under them) leaves the live mapping, every run object, the artifacts
\* and the index as they were.
C36_ReadsChangeNothing ==
  [][(request' # request \/ response' # response) =>
       UNCHANGED << activeRuns, runs, files, indexFile >>]_vars

\* While the run of this process is in saveResults, the list of reports
\* was sent: the 49 entries of the history.
C36_Witness ==
  /\ response # Null /\ response.runId = AllReports
  /\ Len(response.body.reports) = IndexCap - 1
  /\ \E r \in DOMAIN runs : pc[r] \in DOMAIN SaveNext /\ runs[r].status = "running"

\* --------------------------------------------------------------------- C39
\* C39: when every call a run waits for settles at some time, a started
\* run reaches status complete or error; and nothing but the settling of
\* its own calls ends it: as long as one of them is pending the run has
\* status running, and its status changes only in a step of its own.
C39_RunsEnd ==
  /\ (runs # << >>) ~> (runs # << >> /\ runs[1].status \in Terminal)
  /\ [](\A r \in DOMAIN runs : pc[r] # "done" => runs[r].status = "running")
  /\ [][\A r \in DOMAIN runs : runs'[r].status # runs[r].status => Steps(r)]_vars

\* A full-suite run went through all its phases and through saveResults
\* and is complete.
C39_Witness ==
  /\ runs # << >>
  /\ runs[1].testType = "full-suite"
  /\ runs[1].status = "complete"
  /\ IndexWritten(1)

\* --------------------------------------------------------------------- C35
\* C35: of the sixteen executor calls of a suite with a budget of m minutes
\* and ceiling c, the eight that take a duration get "<n>s", n being the
\* greater of 30 and the whole part of (60 m - 30 - 120) / 8, whatever the
\* run's config.duration is; the two ramps get the lesser of c and 2000
\* (m >= 20), 1000 (10 <= m < 20) or 500 (m < 10).
C35_SuiteBudget ==
  (call.fn = "runFullSuite" /\ result # Null) =>
    LET m == call.suiteDurationMinutes
        c == call.maxConcurrency
        budget == 60 * m - 30 - 120
        tier == IF m >= 20 THEN 2000 ELSE IF m >= 10 THEN 1000 ELSE 500
        timed == {i \in DOMAIN result.calls : result.calls[i].exec \in DurationBased}
        ramps == {i \in DOMAIN result.calls :
                    result.calls[i].exec = "runConcurrentSessionsTest"}
    IN /\ Cardinality(timed) = 8
       /\ \A i \in timed :
            \E n \in 30..(60 * m + 30) :
              /\ result.calls[i].duration = ToString(n) \o "s"
              /\ n = 30 \/ 8 * n <= budget
              /\ 8 * (n + 1) > budget
       /\ Cardinality(ramps) = 2
       /\ \A i \in ramps :
            /\ result.calls[i].maxConcurrency <= c
            /\ result.calls[i].maxConcurrency <= tier
            /\ result.calls[i].maxConcurrency \in {c, tier}

\* A suite with the default budget of 10 minutes, a ceiling of 2000 and a
\* config.duration of "60s": slices of "56s", ramps to 1000.
C35_Witness ==
  /\ call.fn = "runFullSuite" /\ result # Null
  /\ call.suiteDurationMinutes = 10 /\ call.maxConcurrency = 2000
  /\ call.run.config.duration = "60s"
  /\ result.calls[1].duration = "56s"
  /\ result.calls[13].maxConcurrency = 1000

\* --------------------------------------------------------------------- C31
\* C31: when the primary results directory exists and cannot be written
\* to, getResultsDir returns the fallback directory.
C31_UnwritablePrimaryFallsBack ==
  (call.fn = "getResultsDir" /\ result # Null) =>
    ((call.fs.primaryExists /\ ~call.fs.primaryWritable) => result.dir = fallbackDir)

\* --------------------------------------------------------------------- C32
\* The label whose line sets a property of the return value.
HeyLabel ==
  [rps |-> "Requests/sec:", avgLatency |-> "Average:", p99Latency |-> "99%",
   totalRequests |-> "Total:", totalBytes |-> "Total data:"]

\* C32: parseHeyOutput returns rps, avgLatency, p99Latency, totalRequests
\* and totalBytes, each with its default of 0 or "0" when no line of the
\* output carries its label with a value in hey's format; the line
\* "Requests/sec: 1234.5" gives rps 1234.5 and "Total data: 2.00 MB" gives
\* 2 * 1024 * 1024 bytes, KB and GB multiplying by 1024 and 1024^3.
C32_DefaultsAndUnits ==
  (call.fn = "parseHeyOutput" /\ result # Null) =>
    /\ DOMAIN result = DOMAIN HeyDefaults
    /\ \A f \in DOMAIN HeyDefaults :
         (\A i \in DOMAIN call.output :
            call.output[i].label = HeyLabel[f] => ~call.output[i].wellFormed)
           => result[f] = HeyDefaults[f]
    /\ \A line \in HeyLines :
         call.output = << line >> =>
           /\ line.text = << "R", "e", "q", "u", "e", "s", "t", "s", "/", "s", "e", "c", ":", " ", "1", "2", "3", "4", ".", "5" >>
                => result.rps = Number([digits |-> 1, scaled |-> 12345])
           /\ line.text = << "T", "o", "t", "a", "l", " ", "d", "a", "t", "a", ":", " ", "2", ".", "0", "0", " ", "M", "B" >>
                => result.totalBytes = Number([digits |-> 0, scaled |-> 2 * 1024 * 1024])
           /\ line.text = << "T", "o", "t", "a", "l", " ", "d", "a", "t", "a", ":", " ", "3", " ", "K", "B" >>
                => result.totalBytes = Number([digits |-> 0, scaled |-> 3 * 1024])
           /\ line.text = << "T", "o", "t", "a", "l", " ", "d", "a", "t", "a", ":", " ", "1", " ", "G", "B" >>
                => result.totalBytes = Number([digits |-> 0, scaled |-> 1024 * 1024 * 1024])

\* --------------------------------------------------------------------- C33
\* C33: when a label among "Requests/sec:", "99%", "Total:" and
\* "Total data:" is on several lines of the output, the value returned for
\* it is the one its first line gives; the later lines change nothing.
C33_FirstLineWins ==
  (call.fn = "parseHeyOutput" /\ result # Null) =>
    \A f \in {"rps", "p99Latency", "totalRequests", "totalBytes"} :
      \A i \in DOMAIN call.output :
        (/\ call.output[i].label = HeyLabel[f]
         /\ \A j \in 1..(i - 1) : call.output[j].label # HeyLabel[f])
          => result[f] = parseHeyOutput(<< call.output[i].text >>)[f]

====
